---- MODULE Spec2Model ----
(***************************************************************************)
(* Record-identity resolution of the vinyl tracker: the catalog query      *)
(* planners, candidate filters, scorers and resolution orchestrators of    *)
(* app/services/cover_best_match.py and app/main.py.                       *)
(*                                                                         *)
(* Python values are encoded as follows.  A str is the sequence of its     *)
(* characters (one-character TLA+ strings); None in a text field is the    *)
(* one-element sequence NoneStr; an optional int is <<>> (None) or <<n>>;  *)
(* a dict is a function from key names to values; a list is a sequence.    *)
(***************************************************************************)
EXTENDS Integers, Sequences, FiniteSets, TLC

VARIABLES
    record,        \* the record row / dict the operation works on
    plan_cbm,      \* planner run: result of discogs_query_plan(record)
    plan_main,     \* planner run: result of discogs_query_plan_for_row(record)
    ran,           \* planner run: which of the planners have been applied
    cand,          \* filter run: the candidate (search item or release detail)
    required,      \* filter run: the required_country argument
    verdict,       \* filter run: filter name -> the bool that filter returned
    op,            \* resolution: the operation in progress
    pc,            \* resolution: position in the operation
    body_release_id, \* resolution: body.release_id of the API request (optional int)
    plan,          \* resolution: the query plan being iterated
    tier,          \* resolution: index in plan of the next spec to search
    searches,      \* resolution: the params sent to the search provider, in order
    items,         \* resolution: "allowed" (cover_best_match) / results (main) of the tier
    idx,           \* resolution: index in items of the next one to process
    resolved,      \* resolution: the list "resolved" of fetch_best_cover_for_record
    best,          \* resolution: the list "best" as appended, before the final sort
    candidates,    \* resolution: the list discogs_fetch_and_score_candidates returns
    release_id,    \* resolution: release_id of the API handler (optional int)
    outcome,       \* resolution: how the operation ended
    offered,       \* history: filter-passing candidates of all tiers attempted so far
    yields,        \* history: per search issued, "failed", "empty" or "survivors"
    ovr,           \* history: what became of the explicit release id
    compared,      \* scorer run: the two candidates <<c1, c2>> being compared
    scores,        \* scorer run: scorer name -> <<score of c1, score of c2>>
    vec_a,         \* cosine run: first argument of cosine_similarity
    vec_b,         \* cosine run: second argument of cosine_similarity
    cosine,        \* cosine run: <<>> or <<value returned, in hundredths>>
    library,       \* embeddings: rows of table records, ordered by id
    store,         \* embeddings: committed rows of table cover_embeddings
    backend,       \* embeddings: whether torch / PIL / clip can be loaded
    upload,        \* embeddings: the file posted to /api/cover-match
    mop,           \* embeddings: the handler in progress
    mpc,           \* embeddings: position in the handler
    limit,         \* embeddings: the ?limit= argument (optional int)
    selected,      \* embeddings: "rows" the batch iterates
    pos,           \* embeddings: index in selected of the next row
    counters,      \* embeddings: processed / skipped_no_image / errors
    txn,           \* embeddings: cover_embeddings as the open connection sees it
    mout,          \* embeddings: how the handler ended
    wlock,         \* embeddings: the batch handler's connection holds the write lock
    deletion,      \* records: the ids db_delete_records is called with, and its position
    requests       \* records: the concurrent requests on one record row

plannerVars == <<plan_cbm, plan_main, ran>>
filterVars == <<cand, required, verdict>>
orchVars == <<op, pc, body_release_id, plan, tier, searches, items, idx, resolved,
              best, candidates, release_id, outcome, offered, yields, ovr>>
scorerVars == <<compared, scores>>
cosineVars == <<vec_a, vec_b, cosine>>
embVars == <<library, store, backend, upload, mop, mpc, limit, selected, pos,
             counters, txn, mout>>
concVars == <<wlock, deletion, requests>>
extVars == <<scorerVars, cosineVars, embVars, concVars>>
vars == <<record, plan_cbm, plan_main, ran, cand, required, verdict,
          op, pc, body_release_id, plan, tier, searches, items, idx, resolved,
          best, candidates, release_id, outcome, offered, yields, ovr,
          compared, scores, vec_a, vec_b, cosine,
          library, store, backend, upload, mop, mpc, limit, selected, pos,
          counters, txn, mout, wlock, deletion, requests>>

(***************************************************************************)
(* Python str                                                              *)
(***************************************************************************)
NoneStr == <<"None">>
NoneList == <<NoneStr>>

UpperChars == <<"A","B","C","D","E","F","G","H","I","J","K","L","M",
                "N","O","P","Q","R","S","T","U","V","W","X","Y","Z">>
LowerChars == <<"a","b","c","d","e","f","g","h","i","j","k","l","m",
                "n","o","p","q","r","s","t","u","v","w","x","y","z">>
DigitChars == <<"0","1","2","3","4","5","6","7","8","9">>

LowerChar(c) ==
    IF \E i \in DOMAIN UpperChars : UpperChars[i] = c
    THEN LowerChars[CHOOSE i \in DOMAIN UpperChars : UpperChars[i] = c]
    ELSE c

UpperChar(c) ==
    IF \E i \in DOMAIN LowerChars : LowerChars[i] = c
    THEN UpperChars[CHOOSE i \in DOMAIN LowerChars : LowerChars[i] = c]
    ELSE c

\* str.lower() / str.upper()
Lower(s) == [i \in DOMAIN s |-> LowerChar(s[i])]
Upper(s) == [i \in DOMAIN s |-> UpperChar(s[i])]

\* str.strip(chars): drop leading and trailing characters that are in chars
RECURSIVE LStrip(_, _)
LStrip(s, chars) ==
    IF s # <<>> /\ s[1] \in chars THEN LStrip(Tail(s), chars) ELSE s

RECURSIVE RStrip(_, _)
RStrip(s, chars) ==
    IF s # <<>> /\ s[Len(s)] \in chars
    THEN RStrip(SubSeq(s, 1, Len(s) - 1), chars)
    ELSE s

StripChars(s, chars) == RStrip(LStrip(s, chars), chars)
Strip(s) == StripChars(s, {" "})

\* sub in s
Contains(sub, s) ==
    \E i \in 1..(Len(s) - Len(sub) + 1) : SubSeq(s, i, i + Len(sub) - 1) = sub

\* sep.join(parts)
RECURSIVE Join(_, _)
Join(sep, parts) ==
    IF parts = <<>> THEN <<>>
    ELSE IF Len(parts) = 1 THEN parts[1]
    ELSE parts[1] \o sep \o Join(sep, Tail(parts))

\* str(n) for an int n >= 0
RECURSIVE StrNat(_)
StrNat(n) ==
    IF n < 10 THEN <<DigitChars[n + 1]>>
    ELSE StrNat(n \div 10) \o <<DigitChars[(n % 10) + 1]>>

\* _nz(x) for a text value: "" if None else str(x).strip()
_nz(x) == IF x = NoneStr THEN <<>> ELSE Strip(x)

\* _nz(x) for an optional int: "" if None else str(x).strip()
_nz_int(y) == IF y = <<>> THEN <<>> ELSE Strip(StrNat(y[1]))

\* Python truthiness of an optional int (None and 0 are falsy)
TruthyInt(y) == y # <<>> /\ y[1] # 0

\* dict p with p[k] = v
Put(p, k, v) == [x \in (DOMAIN p) \cup {k} |-> IF x = k THEN v ELSE p[x]]
PutIf(c, p, k, v) == IF c THEN Put(p, k, v) ELSE p
Has(p, k) == k \in DOMAIN p

s_release == <<"r","e","l","e","a","s","e">>
s_LP == <<"L","P">>
s_lp == <<"l","p">>
s_US == <<"U","S">>
s_vinyl == <<"v","i","n","y","l">>
s_album == <<"a","l","b","u","m">>

(***************************************************************************)
(* app/services/cover_best_match.py: planner                               *)
(***************************************************************************)
country_pref_cbm(rec) ==
    LET c == Strip(IF rec.country = NoneStr THEN <<>> ELSE rec.country)
    IN  IF c # <<>> THEN c ELSE s_US

make_base_params(rec) ==
    [type |-> s_release, country |-> country_pref_cbm(rec), format |-> s_LP]

\* record.get("year") if str(record.get("year") or "").isdigit() else None
PlanYear(rec) == IF TruthyInt(rec.year) THEN rec.year ELSE <<>>

\* the four tiers appended to plan, before deduplication
RawPlan(rec) ==
    LET base == make_base_params(rec)
        artist == _nz(rec.artist)
        title == _nz(rec.title)
        year == PlanYear(rec)
        hasYear == year # <<>>
        label == _nz(rec.label)
        catno == _nz(rec.catalog_number)
        barcode == _nz(rec.barcode)
        pBarcode == PutIf(hasYear, Put(base, "barcode", barcode), "year", year[1])
        pCatno ==
            PutIf(hasYear,
              PutIf(artist # <<>>,
                PutIf(label # <<>>, Put(base, "catno", catno), "label", label),
                "artist", artist),
              "year", year[1])
        pStruct ==
            PutIf(hasYear,
              PutIf(title # <<>>,
                PutIf(artist # <<>>, base, "artist", artist),
                "release_title", title),
              "year", year[1])
        pLoose ==
            PutIf(hasYear,
              Put(base, "q", Strip(Join(<<" ">>, <<artist, title>>))),
              "year", year[1])
    IN  (IF barcode # <<>> THEN <<pBarcode>> ELSE <<>>)
        \o (IF catno # <<>> THEN <<pCatno>> ELSE <<>>)
        \o (IF artist # <<>> \/ title # <<>> THEN <<pStruct>> ELSE <<>>)
        \o (IF artist # <<>> \/ title # <<>> THEN <<pLoose>> ELSE <<>>)

\* "Deduplicate preserving order": keep a dict unless an equal one was seen
RECURSIVE DedupFrom(_, _)
DedupFrom(pl, seen) ==
    IF pl = <<>> THEN <<>>
    ELSE IF pl[1] \in seen THEN DedupFrom(Tail(pl), seen)
    ELSE <<pl[1]>> \o DedupFrom(Tail(pl), seen \cup {pl[1]})

Dedup(pl) == DedupFrom(pl, {})

\* a planner whose loose q tier is not guarded by "if artist or title"
discogs_query_plan_unguarded(rec) ==
    Dedup(RawPlan(rec)
          \o (IF _nz(rec.artist) = <<>> /\ _nz(rec.title) = <<>>
              THEN <<Put(make_base_params(rec), "q", <<>>)>> ELSE <<>>))

discogs_query_plan(rec) == Dedup(RawPlan(rec))

(***************************************************************************)
(* app/main.py: planner                                                    *)
(***************************************************************************)
country_pref_main(row) ==
    LET c == Upper(_nz(row.country))
    IN  IF c # <<>> THEN c ELSE s_US

PerPage == 50

\* a second "q" plan that leaves the year out
QueryWithYear_dropYear(base_q, year) == base_q

\* the second "q" plan of discogs_query_plan_for_row: f"{base_q} {year}"
QueryWithYear(base_q, year) == base_q \o <<" ">> \o year

discogs_query_plan_for_row(row) ==
    LET artist == _nz(row.artist)
        title == _nz(row.title)
        year == _nz_int(row.year)
        cat == _nz(row.catalog_number)
        bc == _nz(row.barcode)
        base_q == Strip(artist \o <<" ">> \o title)
        pQ(q) == [q |-> q, type |-> s_release, format |-> s_LP, per_page |-> PerPage]
    IN  (IF base_q # <<>>
         THEN <<pQ(base_q)>>
              \o (IF year # <<>> THEN <<pQ(QueryWithYear(base_q, year))>> ELSE <<>>)
         ELSE <<>>)
        \o (IF cat # <<>>
            THEN <<[catno |-> cat, type |-> s_release, per_page |-> PerPage]>>
            ELSE <<>>)
        \o (IF bc # <<>>
            THEN <<[barcode |-> bc, type |-> s_release, per_page |-> PerPage]>>
            ELSE <<>>)

(***************************************************************************)
(* Candidate filters                                                       *)
(***************************************************************************)
\* tokens of one entry of "formats" as _fmt_list collects them
FmtEntryTokens(f) ==
    LET name == Lower(IF f.name = NoneStr THEN <<>> ELSE f.name)
    IN  (IF name # <<>> THEN <<name>> ELSE <<>>)
        \o [i \in DOMAIN f.descriptions |-> Lower(f.descriptions[i])]

RECURSIVE FlattenTokens(_, _)
FlattenTokens(Entry(_), formats) ==
    IF formats = <<>> THEN <<>>
    ELSE Entry(formats[1]) \o FlattenTokens(Entry, Tail(formats))

\* cover_best_match.py _fmt_list; a list under "format" (even an empty one) wins
_fmt_list(item) ==
    IF item.format # NoneList
    THEN [i \in DOMAIN item.format |-> Lower(item.format[i])]
    ELSE FlattenTokens(FmtEntryTokens, item.formats)

SeqToSet(q) == { q[i] : i \in DOMAIN q }

candidate_allowed(item, required_country) ==
    LET c == _nz(item.country)
    IN  IF c # required_country THEN FALSE
        ELSE s_lp \in SeqToSet(_fmt_list(item))

\* main.py: tokens.extend([name, *desc]) for one entry of "formats"
DetailEntryTokens(f) ==
    <<Lower(_nz(f.name))>>
    \o [i \in DOMAIN f.descriptions |-> Lower(f.descriptions[i])]

_fmt_tokens_from_release_detail(detail) ==
    FlattenTokens(DetailEntryTokens, detail.formats)

candidate_allowed_release(detail, required_country) ==
    LET tokens == SeqToSet(_fmt_tokens_from_release_detail(detail))
    IN  IF s_lp \notin tokens THEN FALSE
        ELSE IF required_country # <<>>
                /\ Upper(_nz(detail.country)) # Upper(required_country)
        THEN FALSE
        ELSE TRUE

\* " ".join((item.get("format") or [])).lower()
SearchFormatText(item) ==
    Lower(Join(<<" ">>, IF item.format = NoneList THEN <<>> ELSE item.format))

candidate_allowed_search(item, required_country) ==
    LET fmt == SearchFormatText(item)
        c == Upper(_nz(item.country))
    IN  IF ~Contains(s_lp, fmt) /\ ~Contains(s_vinyl, fmt) THEN FALSE
        ELSE IF required_country # <<>> /\ c # <<>> /\ c # Upper(required_country)
        THEN FALSE
        ELSE TRUE

(***************************************************************************)
(* Planner runs: both planners applied to a record                         *)
(***************************************************************************)
s_a == <<"a">>
s_t == <<"t">>
s_us == <<"u","s">>
s_UK == <<"U","K">>
s_Vinyl == <<"V","i","n","y","l">>
s_Album == <<"A","l","b","u","m">>
s_Single == <<"S","i","n","g","l","e">>
s_Help == <<"H","e","l","p">>
s_CD == <<"C","D">>

MkRecord(artist, title, year, label, catno, barcode, country, did) ==
    [artist |-> artist, title |-> title, year |-> year, label |-> label,
     catalog_number |-> catno, barcode |-> barcode, country |-> country,
     discogs_id |-> did, discogs_release_id |-> <<>>,
     cover_url_auto |-> NoneStr, discogs_thumb |-> NoneStr, tracks |-> <<>>]

PlannerRecords ==
    { MkRecord(ar, ti, yr, la, ca, ba, co, <<>>) :
        ar \in {NoneStr, <<" ">>, <<" ","a">>},
        ti \in {NoneStr, s_t},
        yr \in {<<>>, <<0>>, <<1959>>},
        la \in {NoneStr, <<"l">>},
        ca \in {NoneStr, <<"c","1">>},
        ba \in {NoneStr, <<" ">>, <<"7","7"," ">>},
        co \in {NoneStr, <<" ">>, s_us, s_UK} }

NoRecord == MkRecord(NoneStr, NoneStr, <<>>, NoneStr, NoneStr, NoneStr, NoneStr, <<>>)

MkCandidate(id, country, format, formats, artist, artists, title, year, images) ==
    [id |-> id, country |-> country, format |-> format, formats |-> formats,
     artist |-> artist, artists |-> artists, title |-> title, year |-> year,
     images |-> images]

NoCandidate ==
    MkCandidate(<<>>, NoneStr, NoneList, <<>>, NoneStr, <<>>, NoneStr, <<>>, <<>>)

Pending == [kind |-> "pending", exc |-> "", release |-> NoCandidate]

PlannerIdle == plan_cbm = <<>> /\ plan_main = <<>> /\ ran = {}
FilterIdle == cand = NoCandidate /\ required = <<>> /\ verdict = <<>>
ScorerIdle == compared = <<>> /\ scores = <<>>
CosineIdle == vec_a = <<>> /\ vec_b = <<>> /\ cosine = <<>>
NoCounters == [processed |-> 0, skipped_no_image |-> 0, errors |-> 0]
MPending == [kind |-> "pending"]
EmbIdle ==
    /\ library = <<>> /\ store = <<>> /\ backend = "ok" /\ upload = [kind |-> "none"]
    /\ mop = "none" /\ mpc = "idle" /\ limit = <<>> /\ selected = <<>> /\ pos = 0
    /\ counters = NoCounters /\ txn = <<>> /\ mout = MPending
NoDeletion == [ids |-> {}, pc |-> "idle"]
ConcIdle == wlock = FALSE /\ deletion = NoDeletion /\ requests = <<>>
ExtIdle == ScorerIdle /\ CosineIdle /\ EmbIdle /\ ConcIdle
OrchIdle ==
    /\ op = "none" /\ pc = "idle" /\ body_release_id = <<>>
    /\ plan = <<>> /\ tier = 0 /\ searches = <<>> /\ items = <<>> /\ idx = 0
    /\ resolved = <<>> /\ best = <<>> /\ candidates = <<>> /\ release_id = <<>>
    /\ outcome = Pending /\ offered = <<>> /\ yields = <<>> /\ ovr = "absent"

InitPlanner ==
    /\ record \in PlannerRecords
    /\ plan_cbm = <<>>
    /\ plan_main = <<>>
    /\ ran = {}
    /\ FilterIdle
    /\ OrchIdle
    /\ ExtIdle

PlanCbm ==
    /\ "cbm" \notin ran
    /\ plan_cbm' = discogs_query_plan(record)
    /\ ran' = ran \cup {"cbm"}
    /\ UNCHANGED <<extVars, record, plan_main, filterVars, orchVars>>

PlanMain ==
    /\ "main" \notin ran
    /\ plan_main' = discogs_query_plan_for_row(record)
    /\ ran' = ran \cup {"main"}
    /\ UNCHANGED <<extVars, record, plan_cbm, filterVars, orchVars>>

NextPlanner == PlanCbm \/ PlanMain

SpecPlanner == InitPlanner /\ [][NextPlanner]_vars

(***************************************************************************)
(* Filter runs: the three filters applied to a candidate                   *)
(***************************************************************************)
FilterCandidates ==
    { MkCandidate(<<1>>, co, fo, fs, NoneStr, <<>>, NoneStr, <<>>, <<>>) :
        co \in {NoneStr, <<>>, s_US, s_us, <<" ","U","S">>, s_UK},
        fo \in {NoneList, <<>>, <<s_Vinyl, s_LP>>, <<s_Vinyl, s_Single>>,
                <<s_Help>>, <<s_CD>>},
        fs \in {<<>>,
                <<[name |-> s_Vinyl, descriptions |-> <<s_LP, s_Album>>]>>,
                <<[name |-> s_LP, descriptions |-> <<>>]>>,
                <<[name |-> s_Vinyl, descriptions |-> <<s_Single>>],
                  [name |-> NoneStr, descriptions |-> <<s_Help>>]>>} }

RequiredCountries == {s_US, s_us, s_UK}

InitFilter ==
    /\ cand \in FilterCandidates
    /\ required \in RequiredCountries
    /\ verdict = <<>>
    /\ record = NoRecord
    /\ PlannerIdle
    /\ OrchIdle
    /\ ExtIdle

RunCandidateAllowed ==
    /\ ~Has(verdict, "candidate_allowed")
    /\ verdict' = Put(verdict, "candidate_allowed", candidate_allowed(cand, required))
    /\ UNCHANGED <<extVars, cand, required, record, plannerVars, orchVars>>

RunCandidateAllowedRelease ==
    /\ ~Has(verdict, "candidate_allowed_release")
    /\ verdict' = Put(verdict, "candidate_allowed_release",
                      candidate_allowed_release(cand, required))
    /\ UNCHANGED <<extVars, cand, required, record, plannerVars, orchVars>>

\* a filter that normalises the country of the item it is handed, in place
RunCandidateAllowedSearch_normalises ==
    /\ ~Has(verdict, "candidate_allowed_search")
    /\ verdict' = Put(verdict, "candidate_allowed_search",
                      candidate_allowed_search(cand, required))
    /\ cand' = Put(cand, "country", Upper(_nz(cand.country)))
    /\ UNCHANGED <<extVars, required, record, plannerVars, orchVars>>

RunCandidateAllowedSearch ==
    /\ ~Has(verdict, "candidate_allowed_search")
    /\ verdict' = Put(verdict, "candidate_allowed_search",
                      candidate_allowed_search(cand, required))
    /\ UNCHANGED <<extVars, cand, required, record, plannerVars, orchVars>>

NextFilter ==
    RunCandidateAllowed \/ RunCandidateAllowedRelease \/ RunCandidateAllowedSearch

SpecFilter == InitFilter /\ [][NextFilter]_vars

\* a scorer whose exact artist match is worth less than a substring match
score_candidate_cbm_weakExact(item, rec) ==
    LET artist == Lower(_nz(rec.artist))
        title == Lower(_nz(rec.title))
        year == IF TruthyInt(rec.year) THEN Strip(StrNat(rec.year[1])) ELSE <<>>
        cand_artist == Lower(_nz(item.artist))
        cand_title == Lower(_nz(item.title))
        cand_year == _nz_int(item.year)
        sArtist ==
            IF cand_artist # <<>> /\ artist # <<>> /\ cand_artist = artist THEN 10
            ELSE IF cand_artist # <<>> /\ artist # <<>> /\ Contains(artist, cand_artist)
            THEN 12 ELSE 0
        sTitle ==
            IF cand_title # <<>> /\ title # <<>> /\ cand_title = title THEN 25
            ELSE IF cand_title # <<>> /\ title # <<>> /\ Contains(title, cand_title)
            THEN 12 ELSE 0
        sYear == IF cand_year # <<>> /\ year # <<>> /\ cand_year = year THEN 10 ELSE 0
        sImages == IF item.images # <<>> THEN 8 ELSE 0
        sAlbum == IF s_album \in SeqToSet(_fmt_list(item)) THEN 4 ELSE 0
    IN  sArtist + sTitle + sYear + sImages + sAlbum

(***************************************************************************)
(* Scorers                                                                 *)
(***************************************************************************)
\* cover_best_match.py score_candidate(item, record)
score_candidate_cbm(item, rec) ==
    LET artist == Lower(_nz(rec.artist))
        title == Lower(_nz(rec.title))
        year == IF TruthyInt(rec.year) THEN Strip(StrNat(rec.year[1])) ELSE <<>>
        cand_artist == Lower(_nz(item.artist))
        cand_title == Lower(_nz(item.title))
        cand_year == _nz_int(item.year)
        sArtist ==
            IF cand_artist # <<>> /\ artist # <<>> /\ cand_artist = artist THEN 25
            ELSE IF cand_artist # <<>> /\ artist # <<>> /\ Contains(artist, cand_artist)
            THEN 12 ELSE 0
        sTitle ==
            IF cand_title # <<>> /\ title # <<>> /\ cand_title = title THEN 25
            ELSE IF cand_title # <<>> /\ title # <<>> /\ Contains(title, cand_title)
            THEN 12 ELSE 0
        sYear == IF cand_year # <<>> /\ year # <<>> /\ cand_year = year THEN 10 ELSE 0
        sImages == IF item.images # <<>> THEN 8 ELSE 0
        sAlbum == IF s_album \in SeqToSet(_fmt_list(item)) THEN 4 ELSE 0
    IN  sArtist + sTitle + sYear + sImages + sAlbum

Abs(n) == IF n < 0 THEN 0 - n ELSE n

\* a scorer that adds 40 for a candidate whose catalogue number is the record's
score_candidate_main_catno(detail, row) ==
    LET artist == Lower(_nz(row.artist))
        title == Lower(_nz(row.title))
        country == country_pref_main(row)
        year == row.year
        artists_detail ==
            Lower(Join(<<",", " ">>,
                       [i \in DOMAIN detail.artists |-> _nz(detail.artists[i].name)]))
        title_detail == Lower(_nz(detail.title))
        sArtist == IF artist # <<>> /\ Contains(artist, artists_detail) THEN 30 ELSE 0
        sTitle == IF title # <<>> /\ Contains(title, title_detail) THEN 30 ELSE 0
        sCountry ==
            IF country # <<>> /\ Upper(_nz(detail.country)) = Upper(country)
            THEN 10 ELSE 0
        sYear ==
            IF year # <<>> /\ detail.year # <<>> /\ Abs(year[1] - detail.year[1]) <= 1
            THEN 10 ELSE 0
        sCatno ==
            IF Has(detail, "catno") /\ _nz(row.catalog_number) # <<>>
               /\ _nz(detail["catno"]) = _nz(row.catalog_number)
            THEN 40 ELSE 0
    IN  sArtist + sTitle + sCountry + sYear + sCatno

\* main.py: the score_candidate nested in discogs_fetch_and_score_candidates
score_candidate_main(detail, row) ==
    LET artist == Lower(_nz(row.artist))
        title == Lower(_nz(row.title))
        country == country_pref_main(row)
        year == row.year
        artists_detail ==
            Lower(Join(<<",", " ">>,
                       [i \in DOMAIN detail.artists |-> _nz(detail.artists[i].name)]))
        title_detail == Lower(_nz(detail.title))
        sArtist == IF artist # <<>> /\ Contains(artist, artists_detail) THEN 30 ELSE 0
        sTitle == IF title # <<>> /\ Contains(title, title_detail) THEN 30 ELSE 0
        sCountry ==
            IF country # <<>> /\ Upper(_nz(detail.country)) = Upper(country)
            THEN 10 ELSE 0
        sYear ==
            IF year # <<>> /\ detail.year # <<>> /\ Abs(year[1] - detail.year[1]) <= 1
            THEN 10 ELSE 0
    IN  sArtist + sTitle + sCountry + sYear

\* max(resolved, key=...): the first element with the greatest key
RECURSIVE PyMaxFrom(_, _, _)
PyMaxFrom(top, rest, rec) ==
    IF rest = <<>> THEN top
    ELSE PyMaxFrom(IF score_candidate_cbm(rest[1], rec) > score_candidate_cbm(top, rec)
                   THEN rest[1] ELSE top,
                   Tail(rest), rec)

RECURSIVE PyMaxLastFrom(_, _, _)
PyMaxLastFrom(top, rest, rec) ==
    IF rest = <<>> THEN top
    ELSE PyMaxLastFrom(IF score_candidate_cbm(rest[1], rec) >= score_candidate_cbm(top, rec)
                       THEN rest[1] ELSE top,
                       Tail(rest), rec)

\* a max that keeps the last of the elements with the greatest key
PyMax_last(seq, rec) == PyMaxLastFrom(seq[1], Tail(seq), rec)

PyMax(seq, rec) == PyMaxFrom(seq[1], Tail(seq), rec)

\* best.sort(key=lambda x: x[1], reverse=True): stable, descending by score
RECURSIVE InsertDesc(_, _)
InsertDesc(sorted, x) ==
    IF sorted = <<>> THEN <<x>>
    ELSE IF sorted[1][2] >= x[2] THEN <<sorted[1]>> \o InsertDesc(Tail(sorted), x)
    ELSE <<x>> \o sorted

RECURSIVE InsertDescFront(_, _)
InsertDescFront(sorted, x) ==
    IF sorted = <<>> THEN <<x>>
    ELSE IF sorted[1][2] > x[2] THEN <<sorted[1]>> \o InsertDescFront(Tail(sorted), x)
    ELSE <<x>> \o sorted

RECURSIVE SortFold(_, _, _)
SortFold(Ins(_, _), sorted, rest) ==
    IF rest = <<>> THEN sorted
    ELSE SortFold(Ins, Ins(sorted, rest[1]), Tail(rest))

\* a descending sort that reverses the order of elements with equal scores
SortByScoreDesc_unstable(seq) == SortFold(InsertDescFront, <<>>, seq)

SortByScoreDesc(seq) == SortFold(InsertDesc, <<>>, seq)

(***************************************************************************)
(* The catalog provider as the orchestrators see it                        *)
(***************************************************************************)
Img(n) == [type |-> <<"p","r","i","m","a","r","y">>, uri |-> <<"u", n>>, uri150 |-> <<"s", n>>]
FmtLP == <<[name |-> s_Vinyl, descriptions |-> <<s_LP>>]>>
FmtLPAlbum == <<[name |-> s_Vinyl, descriptions |-> <<s_LP, s_Album>>]>>

\* the JSON of GET /releases/{id}
Release(id) ==
    CASE id = 1 -> MkCandidate(<<1>>, s_US, NoneList, FmtLP, NoneStr,
                               <<[name |-> <<"x">>]>>, <<"x">>, <<>>, <<>>)
      [] id = 2 -> MkCandidate(<<2>>, s_US, NoneList, FmtLPAlbum, NoneStr,
                               <<[name |-> <<"A">>]>>, <<"T">>, <<1959>>, <<Img("2")>>)
      [] id = 3 -> MkCandidate(<<3>>, s_US, NoneList, FmtLPAlbum, NoneStr,
                               <<[name |-> s_a]>>, s_t, <<1959>>, <<Img("3")>>)
      [] id = 4 -> MkCandidate(<<4>>, s_UK, NoneList, FmtLPAlbum, NoneStr,
                               <<[name |-> s_a]>>, s_t, <<1959>>, <<Img("4")>>)
      [] id = 6 -> MkCandidate(<<6>>, s_US, NoneList, FmtLP, NoneStr,
                               <<[name |-> s_a]>>, s_t, <<1960>>, <<>>)
      [] OTHER -> MkCandidate(<<id>>, s_UK, NoneList, FmtLP, NoneStr,
                               <<[name |-> s_a]>>, s_t, <<>>, <<>>)

\* one hit of GET /database/search
Hit(id, country, format, title) ==
    MkCandidate(<<id>>, country, format, <<>>, NoneStr, <<>>, title, <<>>, <<>>)

s_a_t == <<"a"," ","-"," ","t">>
H1 == Hit(1, s_US, <<s_Vinyl, s_LP>>, <<"x">>)
H2 == Hit(2, s_US, <<s_Vinyl, s_LP, s_Album>>, s_a_t)
H3 == Hit(3, s_US, <<s_Vinyl, s_LP, s_Album>>, s_a_t)
H4 == Hit(4, s_US, <<s_LP>>, s_a_t)
H5 == Hit(5, s_UK, <<s_Vinyl, s_LP>>, s_a_t)
TailHits == {H1, H2, H3, H4, H5}

\* release ids whose detail request may fail (network error, non-2xx)
FlakyIds == {2, 3, 4}
DetailOutcomes(id) == IF id \in FlakyIds THEN {"ok", "fail"} ELSE {"ok"}

ResolveCap == 8
MaxTail == 2

Min(a, b) == IF a < b THEN a ELSE b

\* allowed[:8]
Capped(allowed) == SubSeq(allowed, 1, Min(Len(allowed), ResolveCap))

SeqsUpTo(S, n) == UNION { [1..m -> S] : m \in 0..n }

\* the result lists the search provider may return: a short list, or a page
\* that opens with ResolveCap copies of the weak hit H1 followed by a short list
SearchResponses ==
    { [i \in 1..ResolveCap |-> H1] \o t : t \in SeqsUpTo(TailHits, MaxTail) }
    \cup SeqsUpTo(TailHits, MaxTail)

(***************************************************************************)
(* cover_best_match.py fetch_best_cover_for_record                         *)
(***************************************************************************)
Returned(rel) == [kind |-> "return", exc |-> "", release |-> rel]
ReturnedNone == [kind |-> "return_none", exc |-> "", release |-> NoCandidate]
Raised(e) == [kind |-> "raise", exc |-> e, release |-> NoCandidate]

\* record.get("discogs_id") or record.get("discogs_release_id")
RelIdOf(rec) ==
    IF TruthyInt(rec.discogs_id) THEN rec.discogs_id
    ELSE IF TruthyInt(rec.discogs_release_id) THEN rec.discogs_release_id
    ELSE <<>>

\* [it for it in results if candidate_allowed(it, required_country)]
RECURSIVE AllowedOf(_, _)
AllowedOf(results, required_country) ==
    IF results = <<>> THEN <<>>
    ELSE (IF candidate_allowed(results[1], required_country)
          THEN <<results[1]>> ELSE <<>>)
         \o AllowedOf(Tail(results), required_country)

CbmStart ==
    /\ pc = "idle"
    /\ op' = "fetch_best_cover_for_record"
    /\ plan' = discogs_query_plan(record)
    /\ tier' = 1
    /\ IF RelIdOf(record) # <<>>
       THEN pc' = "cbm_override" /\ ovr' = "supplied"
       ELSE pc' = "cbm_search" /\ ovr' = "absent"
    /\ UNCHANGED <<extVars, record, plannerVars, filterVars, body_release_id, searches, items,
                   idx, resolved, best, candidates, release_id, outcome, offered, yields>>

\* lines 172-178: the explicit release id
CbmOverride ==
    /\ pc = "cbm_override"
    /\ \E out \in DetailOutcomes(RelIdOf(record)[1]) :
          LET data == Release(RelIdOf(record)[1])
          IN  IF out = "fail"
              THEN pc' = "cbm_search" /\ ovr' = "failed" /\ outcome' = outcome
              ELSE IF candidate_allowed(data, country_pref_cbm(record))
              THEN pc' = "done" /\ ovr' = "accepted" /\ outcome' = Returned(data)
              ELSE pc' = "cbm_search" /\ ovr' = "rejected" /\ outcome' = outcome
    /\ UNCHANGED <<extVars, record, plannerVars, filterVars, op, body_release_id, plan, tier,
                   searches, items, idx, resolved, best, candidates, release_id,
                   offered, yields>>

\* a handler of the search failure that tries the same tier again
CbmSearchFails_retry ==
    /\ pc = "cbm_search"
    /\ tier <= Len(plan)
    /\ searches' = Append(searches, plan[tier])
    /\ yields' = Append(yields, "failed")
    /\ UNCHANGED <<extVars, record, plannerVars, filterVars, op, pc, body_release_id, plan,
                   tier, items, idx, resolved, best, candidates, release_id, outcome,
                   offered, ovr>>

\* lines 182-185: discogs_search raises, the tier is skipped
CbmSearchFails ==
    /\ pc = "cbm_search"
    /\ tier <= Len(plan)
    /\ searches' = Append(searches, plan[tier])
    /\ yields' = Append(yields, "failed")
    /\ tier' = tier + 1
    /\ UNCHANGED <<extVars, record, plannerVars, filterVars, op, pc, body_release_id, plan,
                   items, idx, resolved, best, candidates, release_id, outcome,
                   offered, ovr>>

\* lines 183-190: discogs_search returns, the results are filtered
CbmSearchReturns ==
    /\ pc = "cbm_search"
    /\ tier <= Len(plan)
    /\ searches' = Append(searches, plan[tier])
    /\ \E results \in SearchResponses :
          LET allowed == AllowedOf(results, country_pref_cbm(record))
          IN  IF allowed = <<>>
              THEN /\ yields' = Append(yields, "empty")
                   /\ tier' = tier + 1
                   /\ UNCHANGED <<extVars, pc, items, idx, offered>>
              ELSE /\ yields' = Append(yields, "survivors")
                   /\ items' = allowed
                   /\ idx' = 1
                   /\ offered' = offered \o allowed
                   /\ pc' = "cbm_resolve"
                   /\ UNCHANGED tier
    /\ UNCHANGED <<extVars, record, plannerVars, filterVars, op, body_release_id, plan,
                   resolved, best, candidates, release_id, outcome, ovr>>

\* line 208: the plan is exhausted
CbmExhausted ==
    /\ pc = "cbm_search"
    /\ tier > Len(plan)
    /\ outcome' = ReturnedNone
    /\ pc' = "done"
    /\ UNCHANGED <<extVars, record, plannerVars, filterVars, op, body_release_id, plan, tier,
                   searches, items, idx, resolved, best, candidates, release_id,
                   offered, yields, ovr>>

\* a resolve loop that keeps every detail it gets
CbmResolve_unfiltered ==
    /\ pc = "cbm_resolve"
    /\ idx <= Len(Capped(items))
    /\ LET it == items[idx]
       IN  \E out \in (IF it.id = <<>> THEN {"fail"} ELSE DetailOutcomes(it.id[1])) :
              IF out = "fail"
              THEN resolved' = Append(resolved, it)
              ELSE resolved' = Append(resolved, Release(it.id[1]))
    /\ idx' = idx + 1
    /\ UNCHANGED <<extVars, record, plannerVars, filterVars, op, pc, body_release_id, plan,
                   tier, searches, items, best, candidates, release_id, outcome,
                   offered, yields, ovr>>

\* lines 194-202: one iteration of the loop over allowed[:8]
CbmResolve ==
    /\ pc = "cbm_resolve"
    /\ idx <= Len(Capped(items))
    /\ LET it == items[idx]
       IN  \E out \in (IF it.id = <<>> THEN {"fail"} ELSE DetailOutcomes(it.id[1])) :
              IF out = "fail"
              THEN resolved' = Append(resolved, it)
              ELSE LET rel == Release(it.id[1])
                   IN  resolved' =
                          IF candidate_allowed(rel, country_pref_cbm(record))
                          THEN Append(resolved, rel) ELSE resolved
    /\ idx' = idx + 1
    /\ UNCHANGED <<extVars, record, plannerVars, filterVars, op, pc, body_release_id, plan,
                   tier, searches, items, best, candidates, release_id, outcome,
                   offered, yields, ovr>>

\* lines 205-206: best = max(resolved, ...); return best
CbmChoose ==
    /\ pc = "cbm_resolve"
    /\ idx > Len(Capped(items))
    /\ outcome' = IF resolved = <<>> THEN Raised("ValueError")
                  ELSE Returned(PyMax(resolved, record))
    /\ pc' = "done"
    /\ UNCHANGED <<extVars, record, plannerVars, filterVars, op, body_release_id, plan, tier,
                   searches, items, idx, resolved, best, candidates, release_id,
                   offered, yields, ovr>>

(***************************************************************************)
(* main.py: discogs_fetch_and_score_candidates, api_cover_fetch,           *)
(* api_tracks_save                                                         *)
(***************************************************************************)
Truthy(x) == x # NoneStr /\ x # <<>>

\* main.py pick_best_image: (uri, uri150) of the first primary image with a
\* uri, else of the first image with a uri
pick_best_image_main(detail) ==
    LET images == detail.images
        prim == { i \in DOMAIN images :
                    images[i].type = <<"p","r","i","m","a","r","y">> /\ Truthy(images[i].uri) }
        withUri == { i \in DOMAIN images : Truthy(images[i].uri) }
        First(S) == CHOOSE i \in S : \A j \in S : i <= j
    IN  IF prim # {} THEN <<images[First(prim)].uri, images[First(prim)].uri150>>
        ELSE IF withUri # {}
        THEN <<images[First(withUri)].uri, images[First(withUri)].uri150>>
        ELSE <<NoneStr, NoneStr>>

\* derive_year_from_release_detail for a detail without a "released" field
derive_year_from_release_detail(detail) == detail.year

\* a break that waits for a candidate scoring 40 or more
BreakAfterTier_threshold(scored) == \E i \in DOMAIN scored : scored[i][2] >= 40

\* line 935: if best: break
BreakAfterTier(scored) == scored # <<>>

BodyIds == {<<>>, <<1>>, <<2>>, <<4>>, <<6>>}

ApiStart ==
    /\ pc = "idle"
    /\ \E o \in {"api_cover_fetch", "api_tracks_save"}, b \in BodyIds :
          /\ op' = o
          /\ body_release_id' = b
          /\ IF TruthyInt(b)
             THEN /\ release_id' = b
                  /\ pc' = "api_detail"
                  /\ ovr' = "supplied"
                  /\ UNCHANGED <<extVars, plan, tier>>
             ELSE /\ plan' = discogs_query_plan_for_row(record)
                  /\ tier' = 1
                  /\ pc' = "main_search"
                  /\ UNCHANGED <<extVars, release_id, ovr>>
    /\ UNCHANGED <<extVars, record, plannerVars, filterVars, searches, items, idx, resolved,
                   best, candidates, outcome, offered, yields>>

\* line 915: _http_get raises HTTPException(502), which nothing catches
MainSearchFails ==
    /\ pc = "main_search"
    /\ tier <= Len(plan)
    /\ searches' = Append(searches, plan[tier])
    /\ yields' = Append(yields, "failed")
    /\ outcome' = Raised("HTTP502_search")
    /\ pc' = "done"
    /\ UNCHANGED <<extVars, record, plannerVars, filterVars, op, body_release_id, plan, tier,
                   items, idx, resolved, best, candidates, release_id, offered, ovr>>

\* line 915: the search returns its results
MainSearchReturns ==
    /\ pc = "main_search"
    /\ tier <= Len(plan)
    /\ searches' = Append(searches, plan[tier])
    /\ \E results \in SearchResponses : items' = results
    /\ idx' = 1
    /\ pc' = "main_item"
    /\ UNCHANGED <<extVars, record, plannerVars, filterVars, op, body_release_id, plan, tier,
                   resolved, best, candidates, release_id, outcome, offered, yields,
                   ovr>>

\* lines 916-933: one iteration of the loop over the results
MainItem ==
    /\ pc = "main_item"
    /\ idx <= Len(items)
    /\ LET item == items[idx]
           country == country_pref_main(record)
       IN  IF ~candidate_allowed_search(item, country) \/ ~TruthyInt(item.id)
           THEN UNCHANGED <<extVars, best, offered>>
           ELSE \E out \in DetailOutcomes(item.id[1]) :
                  LET detail == Release(item.id[1])
                  IN  IF out = "fail" \/ ~candidate_allowed_release(detail, country)
                      THEN UNCHANGED <<extVars, best, offered>>
                      ELSE /\ best' = Append(best,
                                   <<item.id[1], score_candidate_main(detail, record)>>)
                           /\ offered' = Append(offered, detail)
    /\ idx' = idx + 1
    /\ UNCHANGED <<extVars, record, plannerVars, filterVars, op, pc, body_release_id, plan,
                   tier, searches, items, resolved, candidates, release_id, outcome,
                   yields, ovr>>

\* lines 935-939: leave the loop if anything was appended, sort, return
MainTierEnd ==
    /\ pc = "main_item"
    /\ idx > Len(items)
    /\ yields' = Append(yields, IF best # <<>> THEN "survivors" ELSE "empty")
    /\ IF BreakAfterTier(best)
       THEN /\ candidates' = SortByScoreDesc(best)
            /\ pc' = "main_derived"
            /\ UNCHANGED tier
       ELSE /\ tier' = tier + 1
            /\ pc' = "main_search"
            /\ UNCHANGED candidates
    /\ UNCHANGED <<extVars, record, plannerVars, filterVars, op, body_release_id, plan,
                   searches, items, idx, resolved, best, release_id, outcome,
                   offered, ovr>>

\* lines 938-939 after the last tier
MainExhausted ==
    /\ pc = "main_search"
    /\ tier > Len(plan)
    /\ candidates' = SortByScoreDesc(best)
    /\ pc' = "main_derived"
    /\ UNCHANGED <<extVars, record, plannerVars, filterVars, op, body_release_id, plan, tier,
                   searches, items, idx, resolved, best, release_id, outcome,
                   offered, yields, ovr>>

\* derive_best_release_id_for_record, then lines 991-992 / 1028-1029
ApiDerived ==
    /\ pc = "main_derived"
    /\ LET rid == IF candidates = <<>> THEN <<>> ELSE <<candidates[1][1]>>
       IN  /\ release_id' = rid
           /\ IF ~TruthyInt(rid)
              THEN outcome' = Raised("HTTP404_not_found") /\ pc' = "done"
              ELSE outcome' = outcome /\ pc' = "api_detail"
    /\ UNCHANGED <<extVars, record, plannerVars, filterVars, op, body_release_id, plan, tier,
                   searches, items, idx, resolved, best, candidates, offered,
                   yields, ovr>>

\* the row after lines 1000-1003 / 1037-1040
YearPatched(row, detail) ==
    IF ~TruthyInt(row.year) /\ derive_year_from_release_detail(detail) # <<>>
    THEN [row EXCEPT !.year = derive_year_from_release_detail(detail)]
    ELSE row

\* lines 994-1017 of api_cover_fetch, lines 1031-1049 of api_tracks_save
ApiDetail ==
    /\ pc = "api_detail"
    /\ pc' = "done"
    /\ \E out \in DetailOutcomes(release_id[1]) :
          LET detail == Release(release_id[1])
              img == pick_best_image_main(detail)
              row == YearPatched(record, detail)
              was(v) == IF ovr = "supplied" THEN v ELSE ovr
          IN  IF out = "fail"
              THEN /\ outcome' = Raised("HTTP502_detail")
                   /\ ovr' = was("failed")
                   /\ UNCHANGED record
              ELSE IF ~candidate_allowed_release(detail, country_pref_main(record))
              THEN /\ outcome' = Raised("HTTP404_constraint")
                   /\ ovr' = was("rejected")
                   /\ UNCHANGED record
              ELSE IF op = "api_tracks_save"
              THEN /\ record' = [row EXCEPT !.tracks = release_id]
                   /\ outcome' = Returned(detail)
                   /\ ovr' = was("accepted")
              ELSE IF ~Truthy(img[1]) /\ ~Truthy(img[2])
              THEN /\ record' = row
                   /\ outcome' = Raised("HTTP404_no_images")
                   /\ ovr' = was("accepted")
              ELSE /\ record' =
                        [row EXCEPT
                           !.discogs_release_id =
                               IF TruthyInt(detail.id) THEN detail.id ELSE release_id,
                           !.cover_url_auto = img[1],
                           !.discogs_thumb =
                               IF Truthy(img[2]) THEN img[2] ELSE row.discogs_thumb]
                   /\ outcome' = Returned(detail)
                   /\ ovr' = was("accepted")
    /\ UNCHANGED <<extVars, plannerVars, filterVars, op, body_release_id, plan, tier, searches,
                   items, idx, resolved, best, candidates, release_id, offered, yields>>

(***************************************************************************)
(* Resolution runs                                                         *)
(***************************************************************************)
ResolutionRecords ==
    { MkRecord(s_a, s_t, <<1959>>, NoneStr, NoneStr, NoneStr, NoneStr, <<>>),
      MkRecord(s_a, s_t, <<>>, NoneStr, <<"c","1">>, <<"7","7">>, s_US, <<>>),
      MkRecord(s_a, s_t, <<1959>>, NoneStr, NoneStr, NoneStr, NoneStr, <<2>>),
      MkRecord(s_a, s_t, <<1959>>, NoneStr, NoneStr, NoneStr, NoneStr, <<4>>),
      MkRecord(<<" ">>, NoneStr, <<1959>>, <<"l">>, NoneStr, <<" ">>, s_UK, <<>>),
      NoRecord }

Init ==
    /\ record \in ResolutionRecords
    /\ PlannerIdle
    /\ FilterIdle
    /\ OrchIdle
    /\ ExtIdle

Next ==
    \/ CbmStart \/ CbmOverride \/ CbmSearchFails \/ CbmSearchReturns
    \/ CbmExhausted \/ CbmResolve \/ CbmChoose
    \/ ApiStart \/ MainSearchFails \/ MainSearchReturns \/ MainItem
    \/ MainTierEnd \/ MainExhausted \/ ApiDerived \/ ApiDetail

Spec == Init /\ [][Next]_vars

(***************************************************************************)
(* Resolution properties                                                   *)
(***************************************************************************)
IsCbm == op = "fetch_best_cover_for_record"
IsApi == op \in {"api_cover_fetch", "api_tracks_save"}

\* fetch_best_cover_for_record has returned a release it found by searching
CbmWinner == IsCbm /\ pc = "done" /\ outcome.kind = "return" /\ ovr # "accepted"

\* discogs_fetch_and_score_candidates has returned a non-empty list
MainWinner == IsApi /\ pc = "main_derived" /\ candidates # <<>>

\* the forms in which fetch_best_cover_for_record can score an allowed hit: its
\* release detail, or the hit itself when the detail request fails; a hit whose
\* detail fails the filter is no constraint-satisfying candidate
FormsOf(h) ==
    IF h.id = <<>> THEN {h}
    ELSE IF candidate_allowed(Release(h.id[1]), country_pref_cbm(record))
    THEN {h, Release(h.id[1])}
    ELSE {}

\* C1: a returned winner scores at least as high as every constraint-satisfying
\* candidate returned by any tier attempted in the call, the allowed hits
\* beyond the first 8 of a tier included.
C1_WinnerHasMaxScore ==
    /\ CbmWinner =>
          \A i \in DOMAIN offered :
              FormsOf(offered[i]) # {} =>
                  \E f \in FormsOf(offered[i]) :
                      score_candidate_cbm(outcome.release, record)
                          >= score_candidate_cbm(f, record)
    /\ MainWinner =>
          \A i \in DOMAIN offered :
              candidates[1][2] >= score_candidate_main(offered[i], record)

\* C2 as stated: the search stops before the plan is exhausted only once the
\* best score seen is at least 40.
C2_StopsOnlyAtThreshold ==
    /\ (CbmWinner /\ Len(searches) < Len(plan)) =>
          score_candidate_cbm(outcome.release, record) >= 40
    /\ (MainWinner /\ Len(searches) < Len(plan)) => candidates[1][2] >= 40

\* C2 as amended: no search is issued after a tier that yielded a surviving
\* candidate, whatever its score, and a call that found nothing has searched
\* every tier of the plan.
C2_StopsAtFirstTierWithSurvivors ==
    /\ \A j \in 1..(Len(yields) - 1) : yields[j] # "survivors"
    /\ Len(searches) <= Len(plan)
    /\ (IsCbm /\ pc = "done" /\ outcome.kind = "return_none") =>
          Len(searches) = Len(plan)
    /\ (IsApi /\ pc = "main_derived" /\ candidates = <<>>) =>
          Len(searches) = Len(plan)
    /\ (CbmWinner \/ MainWinner) => yields[Len(yields)] = "survivors"

C2_Witness ==
    /\ MainWinner
    /\ candidates[1][2] < 40
    /\ Len(yields) = 2
    /\ yields[1] = "empty"
    /\ Len(searches) < Len(plan)

\* C3: a failing search call is skipped, and no provider exception leaves the
\* resolution call; when every tier fails or yields nothing the result is
\* "no suitable release found".
C3_NoProviderErrorPropagates ==
    /\ ~(outcome.kind = "raise" /\ outcome.exc = "HTTP502_search")
    /\ (pc = "done" /\ yields # <<>> /\ \A j \in DOMAIN yields : yields[j] = "failed") =>
          \/ outcome.kind = "return_none"
          \/ outcome.kind = "raise" /\ outcome.exc = "HTTP404_not_found"

\* C4: when an explicit release id is supplied, no search query of the plan
\* is issued in the call, whatever becomes of the id.
C4_OverrideIssuesNoSearch == ovr # "absent" => searches = <<>>

\* C5: when the explicit release id resolves to a detail that fails the
\* filter, the call ends with the constraint-violation outcome.
C5_ConstraintViolationDistinct ==
    (pc = "done" /\ ovr = "rejected") =>
        outcome.kind = "raise" /\ outcome.exc = "HTTP404_constraint"

Max(S) == CHOOSE m \in S : \A n \in S : n <= m
MinOf(S) == CHOOSE m \in S : \A n \in S : m <= n

ResolvedScores == { score_candidate_cbm(resolved[i], record) : i \in DOMAIN resolved }
FirstTopResolved ==
    MinOf({ i \in DOMAIN resolved :
              score_candidate_cbm(resolved[i], record) = Max(ResolvedScores) })

HasScore(n, pair) == pair[2] = n
WithScore(seq, n) == SelectSeq(seq, LAMBDA pair : HasScore(n, pair))

\* C6: among the candidates sharing the top score the winner is the one met
\* first; the sort of discogs_fetch_and_score_candidates keeps candidates of
\* equal score in the order in which they were appended.
C6_FirstSeenWinsTies ==
    /\ (CbmWinner /\ resolved # <<>>) => outcome.release = resolved[FirstTopResolved]
    /\ MainWinner =>
          /\ \A i \in DOMAIN best : candidates[1][2] >= best[i][2]
          /\ \A i \in DOMAIN best :
                WithScore(candidates, best[i][2]) = WithScore(best, best[i][2])

C6_Witness ==
    /\ CbmWinner
    /\ \E i, j \in DOMAIN resolved :
          /\ i < j
          /\ resolved[i] # resolved[j]
          /\ score_candidate_cbm(resolved[i], record) = Max(ResolvedScores)
          /\ score_candidate_cbm(resolved[j], record) = Max(ResolvedScores)
          /\ outcome.release = resolved[i]

(***************************************************************************)
(* Planner properties                                                      *)
(***************************************************************************)
\* the plans the planners have returned so far
EmittedPlans ==
    (IF "cbm" \in ran THEN {plan_cbm} ELSE {})
    \cup (IF "main" \in ran THEN {plan_main} ELSE {})

\* C7: for a record with a non-empty barcode, the first QuerySpec of the plan
\* contains that barcode, for discogs_query_plan and discogs_query_plan_for_row.
C7_FirstSpecHasBarcode ==
    \A pl \in EmittedPlans :
        _nz(record.barcode) # <<>> =>
            /\ pl # <<>>
            /\ Has(pl[1], "barcode")
            /\ pl[1]["barcode"] = _nz(record.barcode)

\* countryOf(record): the record's country, or "US" when absent or blank
CountryOf(rec) ==
    IF rec.country = NoneStr \/ Strip(rec.country) = <<>> THEN s_US
    ELSE Strip(rec.country)

\* C8: every QuerySpec of a plan carries type=release, format=LP and
\* country=countryOf(record), for both planners.
C8_BaseConstraintsInEverySpec ==
    \A pl \in EmittedPlans : \A i \in DOMAIN pl :
        /\ Has(pl[i], "type") /\ pl[i]["type"] = s_release
        /\ Has(pl[i], "format") /\ pl[i]["format"] = s_LP
        /\ Has(pl[i], "country")
        /\ Upper(pl[i]["country"]) = Upper(CountryOf(record))

\* index of the first occurrence of x in the sequence q
FirstIndex(q, x) == CHOOSE i \in DOMAIN q : q[i] = x /\ \A j \in 1..(i - 1) : q[j] # x

\* C9: no plan holds two specs with the same key/value set, and the plan of
\* discogs_query_plan lists the specs of its four tiers in first-seen order.
C9_NoDuplicateSpecs ==
    /\ \A pl \in EmittedPlans :
          \A i, j \in DOMAIN pl : i # j => pl[i] # pl[j]
    /\ "cbm" \in ran =>
          /\ SeqToSet(plan_cbm) = SeqToSet(RawPlan(record))
          /\ \A i, j \in DOMAIN plan_cbm :
                i < j => FirstIndex(RawPlan(record), plan_cbm[i])
                           < FirstIndex(RawPlan(record), plan_cbm[j])

C9_Witness ==
    /\ ran = {"cbm", "main"}
    /\ Len(plan_cbm) = 4
    /\ Len(plan_main) = 4

(***************************************************************************)
(* Filter properties                                                       *)
(***************************************************************************)
\* the lower-cased format tokens each filter derives from the candidate
TokenSetOf(filter, c) ==
    CASE filter = "candidate_allowed" -> SeqToSet(_fmt_list(c))
      [] filter = "candidate_allowed_release" ->
            SeqToSet(_fmt_tokens_from_release_detail(c))
      [] filter = "candidate_allowed_search" ->
            { Lower(t) : t \in SeqToSet(IF c.format = NoneList THEN <<>> ELSE c.format) }

\* C10: a candidate whose lower-cased format-token set lacks the exact token
\* "lp" is rejected by every filter, whatever its country.
C10_NoLpTokenRejected ==
    \A f \in DOMAIN verdict :
        s_lp \notin TokenSetOf(f, cand) => verdict[f] = FALSE

\* the filters that state the country constraint as an exact match
ExactCountryFilters == {"candidate_allowed", "candidate_allowed_release"}

\* C11: for a candidate carrying the "lp" token, candidate_allowed and
\* candidate_allowed_release accept exactly when the candidate's country,
\* upper-cased, equals the required country upper-cased: "us" passes a
\* requirement of "US" and "UK" never passes "US".
C11_CountryMatchIgnoresCase ==
    \A f \in DOMAIN verdict \cap ExactCountryFilters :
        s_lp \in TokenSetOf(f, cand) =>
            (verdict[f] <=> Upper(_nz(cand.country)) = Upper(required))

\* the candidate reports no country, or a blank one
NoCountry(c) == c.country = NoneStr \/ Strip(c.country) = <<>>

\* C12: a candidate that reports no country, or a blank one, is rejected by
\* every filter function.
C12_MissingCountryRejected ==
    \A f \in DOMAIN verdict : NoCountry(cand) => verdict[f] = FALSE

(***************************************************************************)
(* Scorer runs: both scorers applied to two candidates of one record       *)
(***************************************************************************)
s_A == <<"A">>
s_a_b == <<"a"," ","b">>
s_b == <<"b">>
s_x == <<"x">>
s_c1 == <<"c","1">>
s_c2 == <<"c","2">>

\* a US LP candidate in both shapes at once: "artist" as search hits carry it,
\* "artists" as release details carry it, and the catalogue number "catno"
MkScored(artist, title, year, catno) ==
    Put(MkCandidate(<<1>>, s_US, NoneList, FmtLP, artist,
                    <<[name |-> artist]>>, title, year, <<>>),
        "catno", catno)

ScorerCandidates ==
    { MkScored(ar, ti, yr, ca) :
        ar \in {s_a, s_A, s_a_b, s_b},
        ti \in {s_t, s_x},
        yr \in {<<>>, <<1959>>},
        ca \in {s_c1, s_c2} }

ScorerRecords ==
    { MkRecord(ar, s_t, <<1959>>, NoneStr, s_c1, NoneStr, NoneStr, <<>>) :
        ar \in {s_a, s_A, NoneStr} }

s_t_x == <<"t"," ","x">>

\* candidates that also vary in country, images and the Album token
MkScoredFull(artist, title, year, country, images, formats) ==
    Put(MkCandidate(<<1>>, country, NoneList, formats, artist,
                    <<[name |-> artist]>>, title, year, images),
        "catno", s_c1)

VariedCandidates ==
    { MkScoredFull(ar, ti, yr, co, im, fs) :
        ar \in {s_a, s_a_b, s_b},
        ti \in {s_t, s_t_x, s_x},
        yr \in {<<>>, <<1958>>, <<1959>>},
        co \in {s_US, s_UK},
        im \in {<<>>, <<Img("1")>>},
        fs \in {FmtLP, FmtLPAlbum} }

\* the fields a signal of the scorers is read from
SignalFields ==
    { {"artist", "artists"}, {"title"}, {"year"}, {"country"}, {"images"},
      {"formats"} }

SameBut(c, d, fields) == \A k \in (DOMAIN c) \ fields : c[k] = d[k]

\* pairs of candidates that differ in the fields of exactly one signal
OneSignalPairs ==
    { cd \in VariedCandidates \X VariedCandidates :
        /\ cd[1] # cd[2]
        /\ \E g \in SignalFields : SameBut(cd[1], cd[2], g) }

ScorerPairs == (ScorerCandidates \X ScorerCandidates) \cup OneSignalPairs

InitScorer ==
    /\ record \in ScorerRecords
    /\ compared \in ScorerPairs
    /\ scores = <<>>
    /\ PlannerIdle
    /\ FilterIdle
    /\ OrchIdle
    /\ CosineIdle
    /\ EmbIdle
    /\ ConcIdle

ScoreCbm ==
    /\ ~Has(scores, "score_candidate_cbm")
    /\ scores' = Put(scores, "score_candidate_cbm",
                     <<score_candidate_cbm(compared[1], record),
                       score_candidate_cbm(compared[2], record)>>)
    /\ UNCHANGED <<record, plannerVars, filterVars, orchVars, compared, cosineVars, embVars, concVars>>

ScoreMain ==
    /\ ~Has(scores, "score_candidate_main")
    /\ scores' = Put(scores, "score_candidate_main",
                     <<score_candidate_main(compared[1], record),
                       score_candidate_main(compared[2], record)>>)
    /\ UNCHANGED <<record, plannerVars, filterVars, orchVars, compared, cosineVars, embVars, concVars>>

NextScorer == ScoreCbm \/ ScoreMain

SpecScorer == InitScorer /\ [][NextScorer]_vars

(***************************************************************************)
(* Scorer properties                                                       *)
(***************************************************************************)
RecArtist == Lower(_nz(record.artist))

\* the candidate's artist contains the record's artist without being equal to it
ArtistSubstringOnly(c) ==
    /\ RecArtist # <<>>
    /\ Contains(RecArtist, Lower(_nz(c.artist)))
    /\ Lower(_nz(c.artist)) # RecArtist

\* the candidate's artist equals the record's artist, case-insensitively
ArtistExact(c) == RecArtist # <<>> /\ Lower(_nz(c.artist)) = RecArtist

SameButArtist(c1, c2) ==
    [c1 EXCEPT !.artist = c2.artist, !.artists = c2.artists] = c2

\* C13: replacing a candidate whose artist only contains the record's artist
\* by one whose artist equals it exactly, all other fields held fixed,
\* strictly increases the score of both scorers.
C13_ExactArtistOutranksSubstring ==
    \A f \in DOMAIN scores :
        ( /\ ArtistSubstringOnly(compared[1])
          /\ ArtistExact(compared[2])
          /\ SameButArtist(compared[1], compared[2]) )
        => scores[f][2] > scores[f][1]

SameButCatno(c1, c2) == [c1 EXCEPT !.catno = c2.catno] = c2

\* the first candidate's catalogue number differs from the record's, the
\* second one's equals it, and the two candidates are otherwise identical
CatnoOnlyDiffers ==
    /\ _nz(record.catalog_number) # <<>>
    /\ _nz(compared[2].catno) = _nz(record.catalog_number)
    /\ _nz(compared[1].catno) # _nz(record.catalog_number)
    /\ SameButCatno(compared[1], compared[2])

RECURSIVE Dot(_, _)
Dot(a, b) ==
    IF a = <<>> \/ b = <<>> THEN 0
    ELSE a[1] * b[1] + Dot(Tail(a), Tail(b))

\* math.sqrt of a perfect square
ISqrt(n) == CHOOSE r \in 0..n : r * r = n

\* the loop and the final quotient (lines 1141-1150), in hundredths
CosineOfZipped(a, b) ==
    LET k == Min(Len(a), Len(b))
        dot == Dot(a, b)
        na == Dot(SubSeq(a, 1, k), SubSeq(a, 1, k))
        nb == Dot(SubSeq(b, 1, k), SubSeq(b, 1, k))
    IN  IF na <= 0 \/ nb <= 0 THEN 0
        ELSE (100 * dot) \div ISqrt(na * nb)

\* a cosine_similarity without the test len(a) != len(b)
cosine_similarity_nolen(a, b) ==
    IF a = <<>> \/ b = <<>> THEN 0
    ELSE CosineOfZipped(a, b)

cosine_similarity(a, b) ==
    IF a = <<>> \/ b = <<>> \/ Len(a) # Len(b) THEN 0
    ELSE CosineOfZipped(a, b)

(***************************************************************************)
(* Cosine runs: cosine_similarity applied to two vectors                   *)
(***************************************************************************)
CosineVectors ==
    { <<>>, <<0>>, <<5>>, <<0, 0>>, <<5, 0>>, <<0, 5>>, <<3, 4>>, <<4, 3>>,
      <<-3, 4>>, <<-5, 0>>, <<0, 0, 0>>, <<3, 4, 0>> }

InitCosine ==
    /\ vec_a \in CosineVectors
    /\ vec_b \in CosineVectors
    /\ cosine = <<>>
    /\ record = NoRecord
    /\ PlannerIdle
    /\ FilterIdle
    /\ OrchIdle
    /\ ScorerIdle
    /\ EmbIdle
    /\ ConcIdle

RunCosine ==
    /\ cosine = <<>>
    /\ cosine' = <<cosine_similarity(vec_a, vec_b)>>
    /\ UNCHANGED <<record, plannerVars, filterVars, orchVars, scorerVars,
                   vec_a, vec_b, embVars, concVars>>

NextCosine == RunCosine

SpecCosine == InitCosine /\ [][NextCosine]_vars

AllZero(v) == \A i \in DOMAIN v : v[i] = 0

\* C18: cosine_similarity returns exactly 0 when its arguments have different
\* lengths, when either is empty, or when either is all-zero.
C18_DegenerateCosineIsZero ==
    ( /\ cosine # <<>>
      /\ \/ Len(vec_a) # Len(vec_b)
         \/ vec_a = <<>> \/ vec_b = <<>>
         \/ AllZero(vec_a) \/ AllZero(vec_b) )
    => cosine = <<0>>

C18_Witness ==
    /\ cosine = <<0>>
    /\ Len(vec_a) # Len(vec_b)
    /\ ~AllZero(vec_a) /\ ~AllZero(vec_b)
    /\ Dot(vec_a, vec_b) # 0

(***************************************************************************)
(* app/main.py: compute_image_embedding, get_all_cover_embeddings and      *)
(* api_cover_match.  The text of column vec is modelled by what json.loads  *)
(* makes of it: kind "invalid" (not JSON), "scalar" (JSON, not a list),     *)
(* "flat" (a list of numbers), "flat_bad" (a list that starts with a string *)
(* float() rejects) or "nested" (any other list; each item is a vector or,  *)
(* with list = FALSE, something that is not a list).                       *)
(***************************************************************************)
RawVec(kind, flat, its) == [kind |-> kind, flat |-> flat, items |-> its]
VecItem(v) == [list |-> TRUE, v |-> v]
NonListItem == [list |-> FALSE, v |-> <<>>]
NestedVec(its) == RawVec("nested", <<>>, its)

\* the image a cover or an upload holds: kind "image" embeds to vec
Image(kind, v) == [kind |-> kind, vec |-> v]

\* compute_image_embedding: the imports and get_clip_model raise
\* HTTPException(500) when the backend cannot be loaded; Image.open raises on
\* bytes that are no image
compute_image_embedding(image_bytes, be) ==
    IF be = "unavailable" THEN [kind |-> "http500", vec |-> <<>>]
    ELSE IF image_bytes.kind # "image" THEN [kind |-> "error", vec |-> <<>>]
    ELSE [kind |-> "vec", vec |-> image_bytes.vec]

\* a loop that takes an item that is no list for an empty vector
RECURSIVE ListItems_keepAll(_)
ListItems_keepAll(its) ==
    IF its = <<>> THEN <<>>
    ELSE <<its[1].v>> \o ListItems_keepAll(Tail(its))

\* the vectors of the items that are lists (lines 1219-1224)
RECURSIVE ListItems(_)
ListItems(its) ==
    IF its = <<>> THEN <<>>
    ELSE (IF its[1].list THEN <<its[1].v>> ELSE <<>>) \o ListItems(Tail(its))

\* one row of cover_embeddings: <<>> when it is skipped, else <<(id, vecs)>>
ParseEmbeddingRow(r) ==
    CASE r.vec.kind \in {"invalid", "scalar", "flat_bad"} -> <<>>
      [] r.vec.kind = "flat" -> << <<r.record_id, <<r.vec.flat>> >> >>
      [] r.vec.kind = "nested" -> << <<r.record_id, ListItems(r.vec.items)>> >>

RECURSIVE get_all_cover_embeddings(_)
get_all_cover_embeddings(rows) ==
    IF rows = <<>> THEN <<>>
    ELSE ParseEmbeddingRow(rows[1]) \o get_all_cover_embeddings(Tail(rows))

\* a loop that compares the first vector of a record only
BestForRecord_first(query_vec, vecs) == cosine_similarity(query_vec, vecs[1])

\* max(cosine_similarity(query_vec, v) for v in vecs)
BestForRecord(query_vec, vecs) ==
    Max({ cosine_similarity(query_vec, vecs[i]) : i \in DOMAIN vecs })

\* the loop of lines 1257-1263: records without vectors are left out
RECURSIVE ScoreAll(_, _)
ScoreAll(query_vec, cands) ==
    IF cands = <<>> THEN <<>>
    ELSE (IF cands[1][2] = <<>> THEN <<>>
          ELSE << <<cands[1][1], BestForRecord(query_vec, cands[1][2])>> >>)
         \o ScoreAll(query_vec, Tail(cands))

ConfidentAbs == 80
ConfidentGap == 10
TopN == 5

\* a rule that looks at the best score alone
Confident_absOnly(best_score, gap) == best_score >= ConfidentAbs

\* line 1273: (best_score >= 0.80) and (gap >= 0.10)
Confident(best_score, gap) == best_score >= ConfidentAbs /\ gap >= ConfidentGap

\* SELECT id, artist, title FROM records WHERE id IN (...), as meta_by_id.get
MetaOf(rid) ==
    LET hit == SelectSeq(library, LAMBDA row : row.id = rid)
    IN  IF hit = <<>> THEN [artist |-> NoneStr, title |-> NoneStr]
        ELSE [artist |-> hit[1].artist, title |-> hit[1].title]

MRaise(status, detail) == [kind |-> "raise", status |-> status, detail |-> detail]

\* a response that lists every scored record
MatchResult_uncapped(scored_unsorted) ==
    LET scored == SortByScoreDesc(scored_unsorted)
        best_id == scored[1][1]
        best_score == scored[1][2]
        second_best_score == IF Len(scored) > 1 THEN scored[2][2] ELSE 0
        gap == best_score - second_best_score
        top == scored
    IN  [kind |-> "return",
         best |-> [id |-> best_id, score |-> best_score, gap_to_second |-> gap],
         candidates |->
             [i \in DOMAIN top |->
                 [id |-> top[i][1], artist |-> MetaOf(top[i][1]).artist,
                  title |-> MetaOf(top[i][1]).title, score |-> top[i][2]]],
         confident |-> Confident(best_score, gap)]

\* lines 1266-1302: the match result built from the scored list
MatchResult(scored_unsorted) ==
    LET scored == SortByScoreDesc(scored_unsorted)
        best_id == scored[1][1]
        best_score == scored[1][2]
        second_best_score == IF Len(scored) > 1 THEN scored[2][2] ELSE 0
        gap == best_score - second_best_score
        top == SubSeq(scored, 1, Min(Len(scored), TopN))
    IN  [kind |-> "return",
         best |-> [id |-> best_id, score |-> best_score, gap_to_second |-> gap],
         candidates |->
             [i \in DOMAIN top |->
                 [id |-> top[i][1], artist |-> MetaOf(top[i][1]).artist,
                  title |-> MetaOf(top[i][1]).title, score |-> top[i][2]]],
         confident |-> Confident(best_score, gap)]

api_cover_match(file, be, rows) ==
    IF file.kind = "empty" THEN MRaise(400, "Empty file upload")
    ELSE LET q == compute_image_embedding(file, be)
             cands == get_all_cover_embeddings(rows)
         IN  IF q.kind = "http500" THEN MRaise(500, "dependencies not available")
             ELSE IF q.kind = "error" THEN MRaise(500, "unhandled exception")
             ELSE IF cands = <<>>
             THEN MRaise(404, "No cover embeddings present. Populate them via /api/cover-embeddings/rebuild.")
             ELSE IF ScoreAll(q.vec, cands) = <<>>
             THEN MRaise(404, "No valid embeddings to compare against.")
             ELSE MatchResult(ScoreAll(q.vec, cands))

(***************************************************************************)
(* Match runs: api_cover_match on an upload and a store                    *)
(***************************************************************************)
MaxStoreRows == 3

RawVecs ==
    { RawVec("invalid", <<>>, <<>>),
      RawVec("scalar", <<>>, <<>>),
      RawVec("flat_bad", <<>>, <<>>),
      RawVec("flat", <<3, 4>>, <<>>),
      NestedVec(<<>>),
      NestedVec(<<NonListItem>>),
      NestedVec(<<VecItem(<<>>)>>),
      NestedVec(<<VecItem(<<5, 0>>)>>),
      NestedVec(<<VecItem(<<4, 3>>)>>),
      NestedVec(<<VecItem(<<0, 5>>), VecItem(<<4, 3>>)>>),
      NestedVec(<<VecItem(<<5, 0, 0>>)>>) }

\* tables cover_embeddings of up to MaxStoreRows rows; record_id is the key
Stores ==
    UNION { { [i \in 1..n |-> [record_id |-> i, vec |-> f[i]]] :
                f \in [1..n -> RawVecs] } : n \in 0..MaxStoreRows }

\* tables with more usable rows than the response lists
BigStoreRows == 6

BigRawVecs ==
    { RawVec("flat", <<3, 4>>, <<>>),
      NestedVec(<<>>),
      NestedVec(<<VecItem(<<5, 0>>)>>),
      NestedVec(<<VecItem(<<0, 5>>), VecItem(<<4, 3>>)>>) }

BigStores ==
    { [i \in 1..BigStoreRows |-> [record_id |-> i, vec |-> f[i]]] :
        f \in [1..BigStoreRows -> BigRawVecs] }

Uploads ==
    { Image("empty", <<>>), Image("undecodable", <<>>),
      Image("image", <<5, 0>>), Image("image", <<3, 4>>) }

\* a row of table records: cover is what its cover file or URL holds, and
\* cover_src tells whether it is read from cover_local or fetched from a URL
LibraryRow(id, artist, title, cover, src) ==
    [id |-> id, artist |-> artist, title |-> title, cover |-> cover,
     cover_src |-> src]

MatchLibrary ==
    << LibraryRow(1, s_a, s_t, Image("none", <<>>), "local"),
       LibraryRow(2, s_b, s_x, Image("none", <<>>), "local") >>

InitMatch ==
    /\ library = MatchLibrary
    /\ store \in Stores \cup BigStores
    /\ backend \in {"ok", "unavailable"}
    /\ upload \in Uploads
    /\ mop = "none" /\ mpc = "idle" /\ limit = <<>> /\ selected = <<>> /\ pos = 0
    /\ counters = NoCounters /\ txn = <<>> /\ mout = MPending
    /\ ConcIdle
    /\ record = NoRecord
    /\ PlannerIdle
    /\ FilterIdle
    /\ OrchIdle
    /\ ScorerIdle
    /\ CosineIdle

ApiCoverMatch ==
    /\ mpc = "idle"
    /\ mop' = "api_cover_match"
    /\ mpc' = "done"
    /\ mout' = api_cover_match(upload, backend, store)
    /\ UNCHANGED <<record, plannerVars, filterVars, orchVars, scorerVars, cosineVars,
                   library, store, backend, upload, limit, selected, pos, counters,
                   txn, concVars>>

NextMatch == ApiCoverMatch

SpecMatch == InitMatch /\ [][NextMatch]_vars

(***************************************************************************)
(* Matcher properties                                                      *)
(***************************************************************************)
Matched == mop = "api_cover_match" /\ mpc = "done" /\ mout.kind = "return"

\* the runner-up's score as the response lists it, 0 when there is none
SecondListed ==
    IF Len(mout.candidates) > 1 THEN mout.candidates[2].score ELSE 0

\* C15: confident is true if and only if bestScore >= 0.80 and
\* bestScore - secondBestScore >= 0.10 (scores in hundredths), where the best
\* and the runner-up are the two highest-scoring records of the response.
C15_ConfidentIffAbsAndGap ==
    Matched =>
        /\ mout.best.score = mout.candidates[1].score
        /\ \A i \in DOMAIN mout.candidates :
              mout.candidates[i].score <= mout.best.score
        /\ \A i \in 2..Len(mout.candidates) :
              mout.candidates[i].score <= SecondListed
        /\ mout.confident <=>
              (mout.best.score >= 80 /\ mout.best.score - SecondListed >= 10)

C15_Witness ==
    /\ Matched
    /\ mout.best.score >= 96
    /\ Len(mout.candidates) > 1
    /\ mout.best.score - SecondListed < 10
    /\ mout.confident = FALSE

\* the row's text is unparsable, no list, or a list that holds no vector
RowUnusable(r) ==
    \/ r.vec.kind \in {"invalid", "scalar", "flat_bad"}
    \/ r.vec.kind = "nested" /\ \A i \in DOMAIN r.vec.items : ~r.vec.items[i].list

StoreUnusable == \A i \in DOMAIN store : RowUnusable(store[i])

\* the call got as far as reading the store: the upload was not empty and its
\* embedding was computed (lines 1241-1245)
ReachedStore == upload.kind = "image" /\ backend = "ok"

\* C16: when the store holds no usable vector set (no rows, or only rows with
\* empty or unparsable vector lists) api_cover_match never returns a match
\* result, and a call that gets as far as reading the store ends with the
\* 404 "no embeddings" outcome.
C16_EmptyStoreIsNoEmbeddings ==
    (mop = "api_cover_match" /\ mpc = "done" /\ StoreUnusable) =>
        /\ mout.kind = "raise"
        /\ ReachedStore =>
              /\ mout.status = 404
              /\ mout.detail \in
                    {"No cover embeddings present. Populate them via /api/cover-embeddings/rebuild.",
                     "No valid embeddings to compare against."}

C16_Witness ==
    /\ mop = "api_cover_match" /\ mpc = "done"
    /\ ReachedStore
    /\ Len(store) = 2
    /\ StoreUnusable
    /\ store[1].vec.kind = "nested"
    /\ mout = MRaise(404, "No valid embeddings to compare against.")

(***************************************************************************)
(* app/main.py: api_rebuild_cover_embeddings and                           *)
(* api_build_missing_cover_embeddings                                      *)
(***************************************************************************)
\* get_cover_bytes_for_record: None without a readable cover, the bytes of
\* the local file, or the bytes fetched from the URL, for which "requests"
\* must be importable (HTTPException(500) otherwise)
get_cover_bytes_for_record(row, be) ==
    IF row.cover.kind = "none" THEN [kind |-> "none", data |-> row.cover]
    ELSE IF row.cover_src = "url" /\ be = "no_requests"
    THEN [kind |-> "http500", data |-> row.cover]
    ELSE [kind |-> "bytes", data |-> row.cover]

\* INSERT ... ON CONFLICT(record_id) DO UPDATE, rows kept in key order
RECURSIVE Upsert(_, _, _)
Upsert(rows, rid, raw) ==
    IF rows = <<>> THEN <<[record_id |-> rid, vec |-> raw]>>
    ELSE IF rows[1].record_id = rid
    THEN <<[record_id |-> rid, vec |-> raw]>> \o Tail(rows)
    ELSE IF rows[1].record_id > rid
    THEN <<[record_id |-> rid, vec |-> raw]>> \o rows
    ELSE <<rows[1]>> \o Upsert(Tail(rows), rid, raw)

\* table records has a row with this id
RecordExists(rid) == \E i \in DOMAIN library : library[i].id = rid

\* an INSERT that does not check the reference to records(id)
InsertEmbedding_unchecked(rows, rid, raw) ==
    [ok |-> TRUE, rows |-> Upsert(rows, rid, raw)]

\* INSERT INTO cover_embeddings ... ON CONFLICT(record_id) DO UPDATE on a
\* connection with PRAGMA foreign_keys = ON: the statement fails with
\* IntegrityError when records has no row with this id
InsertEmbedding(rows, rid, raw) ==
    IF RecordExists(rid) THEN [ok |-> TRUE, rows |-> Upsert(rows, rid, raw)]
    ELSE [ok |-> FALSE, rows |-> rows]

HasEmbedding(rows, rid) == \E i \in DOMAIN rows : rows[i].record_id = rid

\* the rows each handler selects, ORDER BY id
SelectedRows(handler) ==
    IF handler = "api_rebuild_cover_embeddings" THEN library
    ELSE SelectSeq(library, LAMBDA row : ~HasEmbedding(store, row.id))

CountProcessed(c) == [c EXCEPT !.processed = @ + 1]
CountSkipped(c) == [c EXCEPT !.skipped_no_image = @ + 1]

\* an "except Exception" that continues without counting
CountError_dropped(c) == c

\* except Exception: errors += 1
CountError(c) == [c EXCEPT !.errors = @ + 1]

LimitReached == limit # <<>> /\ counters.processed >= limit[1]

RebuildHandlers ==
    {"api_rebuild_cover_embeddings", "api_build_missing_cover_embeddings"}

RebuildStart ==
    /\ mpc = "idle"
    /\ \E h \in RebuildHandlers :
          /\ mop' = h
          /\ selected' = SelectedRows(h)
    /\ mpc' = "loop"
    /\ pos' = 1
    /\ counters' = NoCounters
    /\ txn' = store
    /\ UNCHANGED <<record, plannerVars, filterVars, orchVars, scorerVars, cosineVars,
                   library, store, backend, upload, limit, mout, concVars>>

\* one iteration of "for row in rows"
RebuildRow ==
    /\ mpc = "loop"
    /\ pos <= Len(selected)
    /\ ~LimitReached
    /\ LET row == selected[pos]
           got == get_cover_bytes_for_record(row, backend)
           emb == compute_image_embedding(got.data, backend)
           ins == InsertEmbedding(txn, row.id, NestedVec(<<VecItem(emb.vec)>>))
       IN  CASE got.kind = "http500" ->
                   /\ mpc' = "done"
                   /\ mout' = MRaise(500, "'requests' not installed")
                   /\ wlock' = FALSE
                   /\ UNCHANGED <<pos, counters, txn>>
             [] got.kind = "none" ->
                   /\ counters' = CountSkipped(counters)
                   /\ pos' = pos + 1
                   /\ UNCHANGED <<mpc, mout, txn, wlock>>
             [] got.kind = "bytes" /\ emb.kind = "http500" ->
                   /\ mpc' = "done"
                   /\ mout' = MRaise(500, "dependencies not available")
                   /\ wlock' = FALSE
                   /\ UNCHANGED <<pos, counters, txn>>
             [] got.kind = "bytes" /\ emb.kind = "error" ->
                   /\ counters' = CountError(counters)
                   /\ pos' = pos + 1
                   /\ UNCHANGED <<mpc, mout, txn, wlock>>
             [] got.kind = "bytes" /\ emb.kind = "vec" ->
                   /\ txn' = ins.rows
                   /\ wlock' = TRUE
                   /\ counters' = IF ins.ok THEN CountProcessed(counters)
                                  ELSE CountError(counters)
                   /\ pos' = pos + 1
                   /\ UNCHANGED <<mpc, mout>>
    /\ UNCHANGED <<record, plannerVars, filterVars, orchVars, scorerVars, cosineVars,
                   library, store, backend, upload, mop, limit, selected, deletion,
                   requests>>

\* the loop ends (rows exhausted or limit reached): commit and return
RebuildReturn ==
    /\ mpc = "loop"
    /\ pos > Len(selected) \/ LimitReached
    /\ store' = txn
    /\ wlock' = FALSE
    /\ mpc' = "done"
    /\ mout' = [kind |-> "return", processed |-> counters.processed,
                skipped_no_image |-> counters.skipped_no_image,
                errors |-> counters.errors]
    /\ UNCHANGED <<record, plannerVars, filterVars, orchVars, scorerVars, cosineVars,
                   library, backend, upload, mop, limit, selected, pos, counters,
                   txn, deletion, requests>>

(***************************************************************************)
(* Rebuild runs: one call of either batch handler over a library           *)
(***************************************************************************)
MaxLibraryRows == 3

NoCover == <<Image("none", <<>>), "local">>
GoodUrlCover == <<Image("image", <<5, 0>>), "url">>
GoodLocalCover == <<Image("image", <<3, 4>>), "local">>
BadCover == <<Image("undecodable", <<>>), "url">>

CoverChoices == {NoCover, GoodUrlCover, GoodLocalCover, BadCover}

LibraryOf(covers) ==
    [i \in DOMAIN covers |-> LibraryRow(i, s_a, s_t, covers[i][1], covers[i][2])]

\* ten records of which three have no image and one has an undecodable one
TenCovers ==
    << GoodLocalCover, NoCover, GoodLocalCover, BadCover, GoodLocalCover, NoCover,
       GoodUrlCover, GoodUrlCover, NoCover, GoodLocalCover >>

Libraries ==
    UNION { { LibraryOf(f) : f \in [1..n -> CoverChoices] } : n \in 0..MaxLibraryRows }
    \cup {LibraryOf(TenCovers)}

RebuildStores ==
    { <<>>,
      <<[record_id |-> 1, vec |-> RawVec("flat", <<3, 4>>, <<>>)]>>,
      <<[record_id |-> 2, vec |-> NestedVec(<<VecItem(<<0, 5>>)>>)]>> }

\* record_id REFERENCES records(id): every row names a row of records
ReferencesHold(rows) == \A i \in DOMAIN rows : RecordExists(rows[i].record_id)

InitRebuild ==
    /\ library \in Libraries
    /\ store \in RebuildStores
    /\ ReferencesHold(store)
    /\ backend \in {"ok", "unavailable", "no_requests"}
    /\ limit \in {<<>>, <<1>>}
    /\ upload = [kind |-> "none"]
    /\ mop = "none" /\ mpc = "idle" /\ selected = <<>> /\ pos = 0
    /\ counters = NoCounters /\ txn = <<>> /\ mout = MPending
    /\ ConcIdle
    /\ record = NoRecord
    /\ PlannerIdle
    /\ FilterIdle
    /\ OrchIdle
    /\ ScorerIdle
    /\ CosineIdle

NextRebuild == RebuildStart \/ RebuildRow \/ RebuildReturn

SpecRebuild == InitRebuild /\ [][NextRebuild]_vars

(***************************************************************************)
(* Rebuild properties                                                      *)
(***************************************************************************)
RebuildDone == mop \in RebuildHandlers /\ mpc = "done"

CountRows(rows, P(_)) == Cardinality({ i \in DOMAIN rows : P(rows[i]) })

HasNoImage(row) == row.cover.kind = "none"
HasGoodImage(row) == row.cover.kind = "image"
HasBadImage(row) == row.cover.kind = "undecodable"

\* C17 as stated: a call without limit always completes, whatever the kind of
\* failure of an embedding computation, with
\* processed + skipped_no_image + errors = N.
C17_BatchAlwaysCompletes ==
    (RebuildDone /\ limit = <<>>) =>
        /\ mout.kind = "return"
        /\ mout.processed + mout.skipped_no_image + mout.errors = Len(selected)

\* C17 as amended: a call without limit that completes has counted every
\* selected record once: records without image as skipped_no_image, records
\* whose embedding computation raised something other than HTTPException as
\* errors, the others as processed; a call that does not complete ended with
\* the HTTPException(500) of a backend that cannot be loaded.
C17_CompletedBatchCountsEveryRecord ==
    (RebuildDone /\ limit = <<>>) =>
        /\ mout.kind = "return" =>
              /\ mout.skipped_no_image = CountRows(selected, HasNoImage)
              /\ mout.errors = CountRows(selected, HasBadImage)
              /\ mout.processed = CountRows(selected, HasGoodImage)
              /\ mout.processed + mout.skipped_no_image + mout.errors = Len(selected)
        /\ mout.kind = "raise" => (mout.status = 500 /\ backend # "ok")
        /\ backend = "ok" => mout.kind = "return"

C17_Witness ==
    /\ RebuildDone
    /\ limit = <<>>
    /\ Len(selected) = 10
    /\ mout = [kind |-> "return", processed |-> 6, skipped_no_image |-> 3,
               errors |-> 1]

(***************************************************************************)
(* Plans of records without identifying signals, and tier order            *)
(***************************************************************************)
\* no barcode, no catalogue number, no artist and no title
NoSignals(rec) ==
    /\ _nz(rec.barcode) = <<>>
    /\ _nz(rec.catalog_number) = <<>>
    /\ _nz(rec.artist) = <<>>
    /\ _nz(rec.title) = <<>>

\* C19: resolution of a record with no barcode, no catalogue number, no
\* artist and no title has an empty plan, issues no catalog search and ends
\* with "no suitable release found": None from fetch_best_cover_for_record,
\* an empty list from discogs_fetch_and_score_candidates, whose caller
\* answers 404 not found.
C19_NoSignalsNoSearch ==
    (NoSignals(record) /\ op # "none") =>
        /\ plan = <<>>
        /\ searches = <<>>
        /\ (IsCbm /\ pc = "done" /\ ovr = "absent") => outcome.kind = "return_none"
        /\ (IsApi /\ pc = "main_derived") => candidates = <<>>
        /\ (IsApi /\ pc = "done" /\ body_release_id = <<>>) =>
              outcome = Raised("HTTP404_not_found")

C19_Witness ==
    /\ NoSignals(record)
    /\ record # NoRecord
    /\ IsCbm
    /\ pc = "done"
    /\ searches = <<>>
    /\ outcome.kind = "return_none"

\* the tier a spec belongs to: 1 barcode, 2 catalogue number, 3 structured
\* artist / release_title, 4 loose q
TierRank(p) ==
    IF Has(p, "barcode") THEN 1
    ELSE IF Has(p, "catno") THEN 2
    ELSE IF Has(p, "q") THEN 4
    ELSE 3

\* the catalogue-number spec the claim expects when label and year are absent:
\* base + catno + artist
ExpectedCatnoSpec(rec) ==
    PutIf(_nz(rec.artist) # <<>>,
          Put([type |-> s_release, format |-> s_LP,
               country |-> CountryOf(rec)], "catno", _nz(rec.catalog_number)),
          "artist", _nz(rec.artist))

\* C20: in every emitted plan the barcode spec precedes the catalogue-number
\* spec, which precedes the structured spec, which precedes the loose q spec;
\* for a record with no barcode and a non-empty catalogue number the first
\* spec is the catalogue-number spec, base + catno + artist when label and
\* year are absent.
C20_TierPrecedence ==
    \A pl \in EmittedPlans :
        /\ \A i, j \in DOMAIN pl : i < j => TierRank(pl[i]) <= TierRank(pl[j])
        /\ (_nz(record.barcode) = <<>> /\ _nz(record.catalog_number) # <<>>) =>
              /\ pl # <<>>
              /\ TierRank(pl[1]) = 2
              /\ (_nz(record.label) = <<>> /\ PlanYear(record) = <<>>) =>
                    pl[1] = ExpectedCatnoSpec(record)

(***************************************************************************)
(* Tiers without a surviving candidate, retries and bounded work           *)
(***************************************************************************)
\* the tier of fetch_best_cover_for_record being resolved ended with every
\* resolved release detail rejected by the filter
TierResolvedNothing ==
    IsCbm /\ items # <<>> /\ idx > Len(Capped(items)) /\ resolved = <<>>

\* C21: in fetch_best_cover_for_record a tier whose hits pass the filter but
\* whose resolved details are all rejected is treated as an empty tier: the
\* call never raises, and it ends with None or with a release of a later tier.
C21_RejectedDetailsNeverRaise ==
    /\ IsCbm => outcome.kind # "raise"
    /\ (TierResolvedNothing /\ pc = "done") =>
          outcome.kind \in {"return", "return_none"}

\* C22: within one resolution call the search calls issued are the specs of
\* the plan, in plan order, each at most once (a failed tier is not
\* re-issued), so there are never more search calls than tiers, at most 4.
C22_EachTierSearchedAtMostOnce ==
    /\ Len(searches) <= Len(plan)
    /\ Len(plan) <= 4
    /\ \A i \in DOMAIN searches : searches[i] = plan[i]
    /\ \A i, j \in DOMAIN searches : i # j => searches[i] # searches[j]

C22_Witness ==
    /\ IsCbm
    /\ pc = "done"
    /\ Len(plan) = 4
    /\ Len(searches) = 4
    /\ \A i \in DOMAIN yields : yields[i] = "failed"

(***************************************************************************)
(* Score monotonicity                                                      *)
(***************************************************************************)
RecTitle == Lower(_nz(record.title))

\* how far each signal of a candidate agrees with the record: 0 not at all,
\* 1 by containment (artist, title) or presence, 2 exactly
AgreementLevel(g, c) ==
    CASE g = {"artist", "artists"} ->
            IF ArtistExact(c) THEN 2 ELSE IF ArtistSubstringOnly(c) THEN 1 ELSE 0
      [] g = {"title"} ->
            IF RecTitle # <<>> /\ Lower(_nz(c.title)) = RecTitle THEN 2
            ELSE IF RecTitle # <<>> /\ Contains(RecTitle, Lower(_nz(c.title))) THEN 1
            ELSE 0
      [] g = {"year"} ->
            IF record.year # <<>> /\ c.year = record.year THEN 1 ELSE 0
      [] g = {"country"} ->
            IF Upper(_nz(c.country)) = Upper(CountryOf(record)) THEN 1 ELSE 0
      [] g = {"images"} -> IF c.images # <<>> THEN 1 ELSE 0
      [] g = {"formats"} -> IF s_album \in SeqToSet(_fmt_list(c)) THEN 1 ELSE 0

\* d is c with one more, or one stronger, field agreement and nothing else changed
OneMoreAgreement(c, d) ==
    \E g \in SignalFields :
        /\ DOMAIN c = DOMAIN d
        /\ SameBut(c, d, g)
        /\ AgreementLevel(g, d) > AgreementLevel(g, c)

\* C23: for both scorers the score is a non-negative integer and does not
\* decrease when one field agreement (artist, title, year, country, album
\* token, image presence) is added to a candidate, all other fields unchanged.
C23_ScoreMonotone ==
    \A f \in DOMAIN scores :
        /\ scores[f][1] \in Nat
        /\ scores[f][2] \in Nat
        /\ OneMoreAgreement(compared[1], compared[2]) => scores[f][2] >= scores[f][1]

C23_Witness ==
    /\ DOMAIN scores = {"score_candidate_cbm", "score_candidate_main"}
    /\ SameBut(compared[1], compared[2], {"country"})
    /\ AgreementLevel({"country"}, compared[1]) = 0
    /\ AgreementLevel({"country"}, compared[2]) = 1
    /\ scores["score_candidate_cbm"][2] = scores["score_candidate_cbm"][1]
    /\ scores["score_candidate_main"][2] = scores["score_candidate_main"][1] + 10

(***************************************************************************)
(* Per-record similarity                                                   *)
(***************************************************************************)
\* the vectors get_all_cover_embeddings hands over for a row: <<>> when the
\* row is skipped or holds no vector
VectorsOf(r) ==
    LET p == ParseEmbeddingRow(r) IN IF p = <<>> THEN <<>> ELSE p[1][2]

Listed(rid) == \E i \in DOMAIN mout.candidates : mout.candidates[i].id = rid

ListedScore(rid) ==
    mout.candidates[CHOOSE i \in DOMAIN mout.candidates :
                        mout.candidates[i].id = rid].score

QueryVec == compute_image_embedding(upload, backend).vec

\* C24: the similarity of a record is the maximum over its stored vectors of
\* their cosine similarity with the query; a record scored on more of its
\* vectors never scores lower; a record with an empty vector list is left out
\* of the ranking rather than scored 0.
C24_RecordScoreIsMaxOverVectors ==
    Matched =>
        \A r \in DOMAIN store :
            LET vecs == VectorsOf(store[r])
                rid == store[r].record_id
            IN  /\ vecs = <<>> => ~Listed(rid)
                /\ Listed(rid) =>
                      /\ \E i \in DOMAIN vecs :
                            ListedScore(rid) = cosine_similarity(QueryVec, vecs[i])
                      /\ \A i \in DOMAIN vecs :
                            ListedScore(rid) >= cosine_similarity(QueryVec, vecs[i])
                      /\ \A n \in 1..Len(vecs) :
                            ListedScore(rid) >=
                                Max({ cosine_similarity(QueryVec, vecs[i]) :
                                         i \in 1..n })

C24_Witness ==
    /\ Matched
    /\ \E r \in DOMAIN store :
          /\ Len(VectorsOf(store[r])) = 2
          /\ Listed(store[r].record_id)
          /\ cosine_similarity(QueryVec, VectorsOf(store[r])[1]) = 0
          /\ ListedScore(store[r].record_id) = 80
    /\ \E r \in DOMAIN store :
          /\ store[r].vec = NestedVec(<<NonListItem>>)
          /\ ~Listed(store[r].record_id)

(***************************************************************************)
(* Candidate list                                                          *)
(***************************************************************************)
ScoredRows == { r \in DOMAIN store : VectorsOf(store[r]) # <<>> }

RowScore(r) ==
    Max({ cosine_similarity(QueryVec, VectorsOf(store[r])[i]) :
            i \in DOMAIN VectorsOf(store[r]) })

LastListed == mout.candidates[Len(mout.candidates)].score

\* C25: the candidate list of a match has min(5, number of scored records)
\* entries, in non-increasing order of score, lists no record id twice, its
\* first entry is the reported best (same id, same score), and every scored
\* record left out scores no higher than the last listed entry.
C25_CandidateListIsTopFive ==
    Matched =>
        /\ Len(mout.candidates) = Min(5, Cardinality(ScoredRows))
        /\ \A i \in 1..(Len(mout.candidates) - 1) :
              mout.candidates[i].score >= mout.candidates[i + 1].score
        /\ \A i, j \in DOMAIN mout.candidates :
              i # j => mout.candidates[i].id # mout.candidates[j].id
        /\ mout.candidates[1].id = mout.best.id
        /\ mout.candidates[1].score = mout.best.score
        /\ \A r \in ScoredRows :
              ~Listed(store[r].record_id) => RowScore(r) <= LastListed

C25_Witness ==
    /\ Matched
    /\ Cardinality(ScoredRows) = 6
    /\ Len(mout.candidates) = 5
    /\ mout.candidates[1].score > LastListed
    /\ \E r \in ScoredRows :
          ~Listed(store[r].record_id) /\ RowScore(r) < LastListed

(***************************************************************************)
(* Filters and scorers as calls on shared arguments: the three filters    *)
(* and the two scorers are run, in any order, on one candidate dict and    *)
(* one record dict.                                                        *)
(***************************************************************************)
InitPure ==
    /\ cand \in FilterCandidates
    /\ required \in RequiredCountries
    /\ verdict = <<>>
    /\ record \in ScorerRecords
    /\ compared = <<cand, cand>>
    /\ scores = <<>>
    /\ PlannerIdle
    /\ OrchIdle
    /\ CosineIdle
    /\ EmbIdle
    /\ ConcIdle

NextPure == NextFilter \/ NextScorer

SpecPure == InitPure /\ [][NextPure]_vars

\* C26: candidate_allowed, candidate_allowed_release, candidate_allowed_search
\* and score_candidate leave the candidate and the record they are given
\* unchanged.
C26_FiltersAndScorersAreReadOnly ==
    [][ /\ cand' = cand
        /\ required' = required
        /\ compared' = compared
        /\ record' = record ]_vars

C26_Witness ==
    /\ DOMAIN verdict =
          {"candidate_allowed", "candidate_allowed_release", "candidate_allowed_search"}
    /\ DOMAIN scores = {"score_candidate_cbm", "score_candidate_main"}
    /\ cand.country = <<" ", "U", "S">>
    /\ cand.format = <<s_Vinyl, s_LP>>
    /\ compared = <<cand, cand>>
    /\ record.artist = s_A

(***************************************************************************)
(* Only constraint-satisfying releases are returned or written             *)
(***************************************************************************)
\* C27: every release fetch_best_cover_for_record returns (by the override,
\* as a resolved detail, or as a search item kept after a failed detail
\* request) satisfies candidate_allowed(release, country_pref(record)), and
\* api_cover_fetch / api_tracks_save change the record only in the step that
\* holds a detail which passed candidate_allowed_release.
C27_OnlyAllowedReleasesReturnedOrWritten ==
    /\ [](IsCbm /\ outcome.kind = "return" =>
             candidate_allowed(outcome.release, country_pref_cbm(record)))
    /\ [][record' # record =>
             /\ IsApi
             /\ pc = "api_detail"
             /\ candidate_allowed_release(Release(release_id[1]),
                                          country_pref_main(record))]_vars

\* the call returned a search item whose detail request had failed
C27_Witness ==
    /\ IsCbm /\ pc = "done" /\ outcome.kind = "return"
    /\ ovr = "rejected"
    /\ outcome.release.formats = <<>>
    /\ outcome.release.format # NoneList
    /\ Len(resolved) > 1

\* a handler has written a cover to the record
C27_WitnessWrite ==
    /\ op = "api_cover_fetch" /\ pc = "done" /\ outcome.kind = "return"
    /\ record.cover_url_auto # NoneStr

(***************************************************************************)
(* Error responses and the stored record                                   *)
(***************************************************************************)
\* C28: whenever api_cover_fetch ends in an error response (no suitable
\* release, constraint violation, matching release has no images, provider
\* failure), every stored field of the record, year included, has the value
\* it had before the request.
C28_ErrorLeavesRecordUnchanged ==
    [][(op' = "api_cover_fetch" /\ pc' = "done" /\ outcome'.kind = "raise")
          => record' = record]_vars

(***************************************************************************)
(* app/main.py: db_delete_records next to the batch handlers.  Each        *)
(* handler works on its own connection to one SQLite file; foreign keys    *)
(* are on for every connection (db, lines 72-79).  The batch handler's     *)
(* connection takes the write lock with its first INSERT and holds it up   *)
(* to its commit; a DELETE that cannot get the lock within the busy        *)
(* timeout fails with "database is locked".                                *)
(***************************************************************************)
\* ON DELETE CASCADE: the rows of cover_embeddings left after the deletion
Cascade(rows, ids) == SelectSeq(rows, LAMBDA r : r.record_id \notin ids)

\* db_delete_records(ids), lines 207-217
DeleteRecords ==
    /\ deletion.pc = "idle"
    /\ ~wlock
    /\ IF deletion.ids = {}
       THEN UNCHANGED <<library, store, txn>>
       ELSE /\ library' = SelectSeq(library, LAMBDA row : row.id \notin deletion.ids)
            /\ store' = Cascade(store, deletion.ids)
            /\ txn' = Cascade(txn, deletion.ids)
    /\ deletion' = [deletion EXCEPT !.pc = "done"]
    /\ UNCHANGED <<record, plannerVars, filterVars, orchVars, scorerVars, cosineVars,
                   backend, upload, mop, mpc, limit, selected, pos, counters, mout,
                   wlock, requests>>

\* the DELETE waits for the write lock and gives up: OperationalError
DeleteLocked ==
    /\ deletion.pc = "idle"
    /\ deletion.ids # {}
    /\ wlock
    /\ deletion' = [deletion EXCEPT !.pc = "locked"]
    /\ UNCHANGED <<record, plannerVars, filterVars, orchVars, scorerVars, cosineVars,
                   embVars, wlock, requests>>

InitIntegrity ==
    /\ library \in Libraries
    /\ store \in RebuildStores
    /\ ReferencesHold(store)
    /\ backend \in {"ok", "unavailable"}
    /\ limit \in {<<>>, <<1>>}
    /\ upload = [kind |-> "none"]
    /\ mop = "none" /\ mpc = "idle" /\ selected = <<>> /\ pos = 0
    /\ counters = NoCounters /\ txn = <<>> /\ mout = MPending
    /\ wlock = FALSE
    /\ deletion \in [ids : SUBSET (1..MaxLibraryRows), pc : {"idle"}]
    /\ requests = <<>>
    /\ record = NoRecord
    /\ PlannerIdle
    /\ FilterIdle
    /\ OrchIdle
    /\ ScorerIdle
    /\ CosineIdle

NextIntegrity == NextRebuild \/ DeleteRecords \/ DeleteLocked

SpecIntegrity == InitIntegrity /\ [][NextIntegrity]_vars

Deleted(rid) == deletion.pc = "done" /\ rid \in deletion.ids

\* C30: under every interleaving of db_delete_records with
\* api_rebuild_cover_embeddings / api_build_missing_cover_embeddings, every
\* cover_embeddings row refers to an existing record; deleting a record removes
\* its embedding, and a batch that read the record before the deletion leaves
\* no embedding for it once both have finished.
C30_EmbeddingsReferToRecords ==
    /\ ReferencesHold(store)
    /\ \A rid \in deletion.ids :
          Deleted(rid) /\ mpc \in {"idle", "done"} => ~HasEmbedding(store, rid)

\* the batch read record 1 with a good cover, the record was deleted before
\* the batch reached it, and both have finished
C30_Witness ==
    /\ mpc = "done" /\ mout.kind = "return"
    /\ Deleted(1)
    /\ \E i \in DOMAIN selected :
          selected[i].id = 1 /\ selected[i].cover.kind = "image"
    /\ counters.errors > 0
    /\ counters.processed > 0
    /\ ~HasEmbedding(store, 1)

(***************************************************************************)
(* app/main.py: patch_record and db_patch_record, and the write of         *)
(* api_cover_fetch, as concurrent requests on one row of records.  The     *)
(* handlers are plain "def" endpoints, which the server runs on worker     *)
(* threads, each with its own connection; every UPDATE is one statement.   *)
(* The column updated_at is not modelled.  In this section the variable    *)
(* record is the stored row.                                               *)
(***************************************************************************)
\* UPDATE records SET k = v, ... WHERE id = rid, for the keys of payload
db_patch_record(row, payload) ==
    [k \in DOMAIN row |-> IF k \in DOMAIN payload THEN payload[k] ELSE row[k]]

\* the columns of table records the model keeps (tracks live in another table)
Columns(row) == (DOMAIN row) \ {"tracks"}

\* lines 465-469: merged = dict(existing); merged[k] = v for the fields set;
\* merged.pop("id")
patch_merged(existing, update_data) ==
    [k \in Columns(existing) |->
        IF k \in DOMAIN update_data THEN update_data[k] ELSE existing[k]]

\* lines 1009-1014: the payload api_cover_fetch writes for a release detail
cover_payload(detail) ==
    LET img == pick_best_image_main(detail)
        both == [k \in {"discogs_release_id", "cover_url_auto", "discogs_thumb"} |->
                    CASE k = "discogs_release_id" -> detail.id
                      [] k = "cover_url_auto" -> img[1]
                      [] k = "discogs_thumb" -> img[2]]
    IN  IF Truthy(img[2]) THEN both
        ELSE [k \in {"discogs_release_id", "cover_url_auto"} |-> both[k]]

PatchFields == {"artist", "title", "label"}

PatchValues(k) ==
    CASE k = "artist" -> {s_b, s_A}
      [] k = "title" -> {s_x}
      [] k = "label" -> {<<"l">>, NoneStr}

\* payload.dict(exclude_unset=True) of the PATCH bodies
PatchBodies ==
    UNION { { f \in [F -> {s_b, s_A, s_x, <<"l">>, NoneStr}] :
                \A k \in F : f[k] \in PatchValues(k) } :
            F \in (SUBSET PatchFields) \ {{}} }

PatchRequest(update_data) ==
    [kind |-> "patch", update |-> update_data, pc |-> "start", existing |-> NoRecord]

CoverFetchRequest(detail) ==
    [kind |-> "cover_fetch", update |-> cover_payload(detail), pc |-> "start",
     existing |-> NoRecord]

InitPatch ==
    /\ record = MkRecord(s_a, s_t, <<1959>>, NoneStr, NoneStr, NoneStr, NoneStr, <<>>)
    /\ requests \in
          { <<PatchRequest(u), second>> :
              u \in PatchBodies,
              second \in { PatchRequest(v) : v \in PatchBodies }
                         \cup { CoverFetchRequest(Release(id)) : id \in {2, 3} } }
    /\ wlock = FALSE /\ deletion = NoDeletion
    /\ PlannerIdle
    /\ FilterIdle
    /\ OrchIdle
    /\ ScorerIdle
    /\ CosineIdle
    /\ EmbIdle

\* line 464: existing = db_get_record_or_404(rid)
PatchRead ==
    \E r \in DOMAIN requests :
        /\ requests[r].kind = "patch"
        /\ requests[r].pc = "start"
        /\ requests' = [requests EXCEPT ![r].existing = record, ![r].pc = "read"]
        /\ UNCHANGED <<record, plannerVars, filterVars, orchVars, scorerVars,
                       cosineVars, embVars, wlock, deletion>>

\* lines 465-470: return db_patch_record(rid, merged)
PatchWrite ==
    \E r \in DOMAIN requests :
        /\ requests[r].kind = "patch"
        /\ requests[r].pc = "read"
        /\ record' = db_patch_record(record,
                         patch_merged(requests[r].existing, requests[r].update))
        /\ requests' = [requests EXCEPT ![r].pc = "done"]
        /\ UNCHANGED <<plannerVars, filterVars, orchVars, scorerVars, cosineVars,
                       embVars, wlock, deletion>>

\* line 1016: updated = db_patch_record(rid, payload)
CoverFetchWrite ==
    \E r \in DOMAIN requests :
        /\ requests[r].kind = "cover_fetch"
        /\ requests[r].pc = "start"
        /\ record' = db_patch_record(record, requests[r].update)
        /\ requests' = [requests EXCEPT ![r].pc = "done"]
        /\ UNCHANGED <<plannerVars, filterVars, orchVars, scorerVars, cosineVars,
                       embVars, wlock, deletion>>

NextPatch == PatchRead \/ PatchWrite \/ CoverFetchWrite

SpecPatch == InitPatch /\ [][NextPatch]_vars

AllRequestsDone ==
    requests # <<>> /\ \A r \in DOMAIN requests : requests[r].pc = "done"

DisjointFields ==
    \A r, q \in DOMAIN requests :
        r # q => (DOMAIN requests[r].update) \cap (DOMAIN requests[q].update) = {}

\* C29: patch_record changes only the fields set in the request, so under any
\* interleaving of two requests on the same record that set disjoint fields
\* (two PATCH calls, or a PATCH and an api_cover_fetch) the final row carries
\* the values written by both.
C29_NoLostUpdate ==
    (AllRequestsDone /\ DisjointFields) =>
        \A r \in DOMAIN requests :
            \A k \in DOMAIN requests[r].update : record[k] = requests[r].update[k]

====
